---- MODULE Spec2Model ----
(***************************************************************************)
(* Stage orchestration engine of the chat-assisted document pipeline:      *)
(* the in-memory concurrency guard and rate limiter, the /api/chat         *)
(* request handler, the stage state machine (createStageNode / runStage),  *)
(* the stage budget, the default stage driver and the stage writers.       *)
(*                                                                         *)
(* Every action is one synchronous block of the TypeScript source, i.e.    *)
(* the code that runs between two suspension points (await of a database   *)
(* call, of the generation service, of the re-ingestion hook) or one       *)
(* event-listener invocation.                                              *)
(***************************************************************************)
EXTENDS Integers, Sequences, FiniteSets, TLC

VARIABLES
  activeChat,   \* InMemoryRateLimiter.activeChat : set of session ids
  counters,     \* InMemoryRateLimiter.counters : (sid, bucket) -> Counter or NoCounter
  now,          \* Date.now() in milliseconds
  req,          \* per /api/chat request: position and locals of the handler
  wire,         \* per request: frames written to reply.raw, in order
  run,          \* per runStage invocation: position and locals of the stage node
  docs,         \* docs table: session -> doc name -> [content, approved]
  chat,         \* chat_messages table: session -> sequence of rows
  faults,       \* environment: failures and disconnects injected so far
  sessions,     \* sessions table: session -> [currentStage, approved flags]
  designs,      \* designs table: session -> number of rows
  api,          \* per approval or document request: position and locals
  client,       \* lib/stream runStream: the response body and the reader's state
  limiter,      \* calls made on the rate limiter directly, with their results
  reply,        \* one assistant reply: its segments and the delta texts written
  stream        \* lib/stream streamChat: position, locals and handler calls

vars == <<activeChat, counters, now, req, wire, run, docs, chat, faults,
          sessions, designs, api, client, limiter, reply, stream>>

(***************************************************************************)
(* Bounds of the model.                                                    *)
(***************************************************************************)
NumSessions == 2
NumRequests == 2
NumApi == 2
MaxContent == 2
MaxText == 2
MaxChecks == 4
MaxTicks == 4
MaxOps == 4
MaxSegments == 2
MaxSegmentLen == 2
MaxRetries == 2
MaxFrames == 2
MaxBudgetLimit == 2
MaxScript == 3
MaxFaults == 1

Sessions == 1..NumSessions
Requests == 1..NumRequests
ApiRequests == 1..NumApi

(***************************************************************************)
(* Program constants.                                                      *)
(***************************************************************************)
MAX_STAGE_LLM_CALLS == 4
CHAT_MINUTE_LIMIT == 30
CHAT_MINUTE_WINDOW_MS == 60000
CHAT_HOUR_LIMIT == 300
CHAT_HOUR_WINDOW_MS == 3600000

stageNames == <<"intake", "one_pager", "spec", "design", "prompt_plan", "agents", "export">>
docNames == {"idea.md", "idea_one_pager.md", "spec.md", "prompt_plan.md", "AGENTS.md"}

StageSet == {stageNames[i] : i \in 1..Len(stageNames)}

\* sessions columns approved_intake .. approved_agents
ApprovedFlags == {"intake", "one_pager", "spec", "design", "prompt_plan", "agents"}

\* The rows POST /api/session/init inserts.
NewSession == [currentStage |-> "intake", approved |-> [f \in ApprovedFlags |-> FALSE]]

\* No call has been made on the limiter directly.
NoCalls == [log |-> <<>>, ops |-> <<>>]
NoReply == [segments |-> <<>>, streamed |-> FALSE, deltas |-> <<>>]

\* streamChat has not been called. attempts counts the calls of runStream,
\* outcomes records how each ended; completes, errors and reconnects count the
\* calls of the handlers.
NoStream ==
  [pc |-> "idle", attempt |-> 0, maxRetries |-> 0, hasSignal |-> FALSE,
   aborted |-> FALSE, live |-> FALSE, onComplete |-> "none", delay |-> 0,
   attempts |-> 0,
   outcomes |-> <<>>, completes |-> 0, errors |-> 0, reconnects |-> <<>>]

\* The reader of a response body before the first byte: what the server has
\* written so far, the part of it not yet read, the reader's buffer and
\* the handler calls made.
IdleClient == [written |-> <<>>, sent |-> <<>>, inflight |-> <<>>, ended |-> FALSE,
               buffer |-> <<>>, dispatched |-> <<>>, reads |-> 0, done |-> FALSE]

\* An approval or document request that has not arrived.
NoValidation == [ok |-> TRUE, reasons |-> <<>>]
IdleApi == [kind |-> "none", pc |-> "new", sid |-> 0, stage |-> "", name |-> "",
            content |-> <<>>, status |-> 0, validation |-> NoValidation,
            seenStage |-> "", validated |-> <<>>, flippedWith |-> <<>>, writes |-> 0,
            reingested |-> ""]

\* graph.ts STAGES: the stages the compiled graph has a node for.
STAGES == <<"intake", "spec", "design", "prompt_plan", "agents", "export">>
StageNodes == {STAGES[i] : i \in 1..Len(STAGES)}

STAGE_READY_FLAGS == [s \in StageSet |-> IF s = "intake" THEN "READY_TO_DRAFT"
                                          ELSE IF s = "spec" THEN "READY_TO_COMPILE_SPEC"
                                          ELSE ""]

(***************************************************************************)
(* Stage events (types.ts StageEvent), kept in one record shape.           *)
(***************************************************************************)
EventKinds == {"assistant.delta", "doc.updated", "stage.ready", "stage.needs_more"}
TerminalKinds == {"stage.ready", "stage.needs_more"}

\* A document's content is a sequence of tokens: "text" is an ASCII
\* character, "wide" a character of three UTF-8 bytes, "space" white space,
\* "heading" the one-pager section names, "dod" the words Definition of Done,
\* "agent" the words Agent responsibility; <<>> is empty.
ContentTokens == {"text", "wide", "space", "heading", "dod", "agent"}
ByteWidth(token) == IF token = "wide" THEN 3 ELSE 1

\* Buffer.byteLength(content, "utf8")
RECURSIVE ByteLength(_)
ByteLength(content) ==
  IF content = <<>> THEN 0 ELSE ByteWidth(Head(content)) + ByteLength(Tail(content))

DeltaEvent(stage) ==
  [event |-> "assistant.delta", stage |-> stage, reason |-> "", name |-> "", size |-> 0]
DocUpdatedEvent(stage, name, content) ==
  [event |-> "doc.updated", stage |-> stage, reason |-> "", name |-> name, size |-> ByteLength(content)]
ReadyEvent(stage) ==
  [event |-> "stage.ready", stage |-> stage, reason |-> "", name |-> "", size |-> 0]
NeedsMoreEvent(stage, reason) ==
  [event |-> "stage.needs_more", stage |-> stage, reason |-> reason, name |-> "", size |-> 0]

(***************************************************************************)
(* Locals of one runStage invocation.  exc is the exception in flight      *)
(* ("none" when there is none); result/reason are the StageDriverResult.   *)
(***************************************************************************)
IdleRun ==
  [pc |-> "idle", sessionId |-> 0, stage |-> "", limit |-> 0, count |-> 0,
   events |-> <<>>, delivered |-> <<>>, status |-> "running",
   exc |-> "none", result |-> "none", reason |-> "",
   driver |-> "default", script |-> <<>>, ret |-> "ready",
   onEvent |-> "none", throwOn |-> {}, once |-> FALSE, armed |-> FALSE,
   hook |-> "default", reingestFails |-> {}, phases |-> <<>>, calls |-> <<>>, content |-> <<>>, wrote |-> <<>>,
   steps |-> <<>>, nodeEmitAt |-> 0, caught |-> <<>>, timedOut |-> FALSE]

Last(q) == q[Len(q)]
Positions(q, P(_)) == {i \in 1..Len(q) : P(q[i])}

\* Run the operation Op on the run locals unless an exception is in flight.
Try(rr, Op(_)) == IF rr.exc # "none" THEN rr ELSE Op(rr)

(***************************************************************************)
(* budget.ts : StageBudget                                                 *)
(***************************************************************************)
\* Variants of track() with a plausible slip: the comparison off by one, and
\* the limit test dropped.
track_offByOne(rr) ==
  IF rr.count > rr.limit
    THEN [rr EXCEPT !.exc = "BudgetExceededError"]
    ELSE [rr EXCEPT !.count = @ + 1]

track_unchecked(rr) == [rr EXCEPT !.count = @ + 1]

track(rr) ==
  IF rr.count >= rr.limit
    THEN [rr EXCEPT !.exc = "BudgetExceededError"]
    ELSE [rr EXCEPT !.count = @ + 1]

\* consume(kind) delegates to track(); calls is the observation log of the
\* consume calls of the run (kind, counter before and after, raised or not).
consume(rr, kind) ==
  LET out == track(rr)
  IN [out EXCEPT !.calls = Append(@, [kind |-> kind, before |-> rr.count,
                                      after |-> out.count,
                                      raised |-> out.exc = "BudgetExceededError"])]

totalCalls(rr) == rr.count

(***************************************************************************)
(* graph.ts : createEventBuffer                                            *)
(***************************************************************************)
\* Does the caller's onEvent callback throw on this event?
onEventThrows(rr, ev) == rr.onEvent = "throwing" /\ rr.armed /\ ev.event \in rr.throwOn

\* A variant of emit that calls the callback before it records the event, so
\* an event whose callback throws never reaches the log.
emit_callbackFirst(rr, ev) ==
  LET called == IF rr.onEvent = "none" THEN rr
                ELSE [rr EXCEPT !.delivered = Append(@, ev)]
  IN IF onEventThrows(rr, ev)
       THEN [called EXCEPT !.exc = "Error", !.armed = ~rr.once]
       ELSE [called EXCEPT !.events = Append(@, ev)]

emit(rr, ev) ==
  LET pushed == [rr EXCEPT !.events = Append(@, ev)]
      called == IF rr.onEvent = "none" THEN pushed
                ELSE [pushed EXCEPT !.delivered = Append(@, ev)]
  IN IF onEventThrows(rr, ev)
       THEN [called EXCEPT !.exc = "Error", !.armed = ~rr.once]
       ELSE called

flush(rr) == rr.events

has(rr, type) == \E i \in 1..Len(rr.events) : rr.events[i].event = type

emitNeedsMore(rr, reason) == emit(rr, NeedsMoreEvent(rr.stage, reason))

(***************************************************************************)
(* writers.ts                                                              *)
(***************************************************************************)
hasContent(content) == \E i \in 1..Len(content) : content[i] # "space"

\* The document a writer requires, and the reason it reports when it is empty.
UpstreamDoc(stage) ==
  CASE stage = "one_pager" -> "idea.md"
    [] stage = "spec" -> "idea_one_pager.md"
    [] stage = "design" -> "spec.md"
    [] stage = "prompt_plan" -> "spec.md"
    [] stage = "agents" -> "prompt_plan.md"
    [] OTHER -> ""

MissingReason(stage) ==
  CASE stage = "one_pager" -> "MISSING_INTAKE_DOC"
    [] stage = "spec" -> "MISSING_ONE_PAGER"
    [] stage = "design" -> "MISSING_SPEC"
    [] stage = "prompt_plan" -> "MISSING_SPEC"
    [] stage = "agents" -> "MISSING_PROMPT_PLAN"
    [] OTHER -> ""

\* The document a writer persists.
TargetDoc(stage) ==
  CASE stage = "intake" -> "idea.md"
    [] stage = "one_pager" -> "idea_one_pager.md"
    [] stage = "spec" -> "spec.md"
    [] stage = "design" -> "prompt_plan.md"
    [] stage = "prompt_plan" -> "prompt_plan.md"
    [] stage = "agents" -> "AGENTS.md"
    [] OTHER -> ""

\* Length of the document a writer builds: the templated builders
\* (buildIntakeDoc, buildOnePagerDoc, ...) always render their headings, the
\* model-drafted idea.md is a different text.
TemplateContent == <<"heading", "wide">>
DraftedContent == <<"text", "wide">>

emitDocUpdated_length(rr, name, content) ==
  emit(rr, [DocUpdatedEvent(rr.stage, name, content) EXCEPT !.size = Len(content)])
emitDocUpdated(rr, name, content) == emit(rr, DocUpdatedEvent(rr.stage, name, content))
emitDelta(rr) == emit(rr, DeltaEvent(rr.stage))

ready(rr) == [rr EXCEPT !.result = "ready", !.reason = ""]

failNeedsMore(rr, reason) ==
  LET e == emitNeedsMore(rr, reason)
  IN IF e.exc # "none" THEN e ELSE [e EXCEPT !.result = "needs_more", !.reason = reason]

\* stageWriters.export
runExportStage(rr) == failNeedsMore(rr, "EXPORT_NOT_IMPLEMENTED")

\* The tail every document writer shares once writeDoc has resolved:
\* emitDocUpdated, emitDelta, return ready().
writerTail(rr) ==
  LET e1 == emitDocUpdated(rr, TargetDoc(rr.stage), rr.content)
      e2 == Try(e1, LAMBDA x : emitDelta(x))
  IN Try(e2, LAMBDA x : ready(x))

(***************************************************************************)
(* driver.ts : DefaultStageDriver.run                                      *)
(***************************************************************************)
\* catch (error) { ... } of DefaultStageDriver.run
driverCatch(rr) ==
  IF rr.exc = "none" THEN rr
  ELSE LET reason == IF rr.exc = "BudgetExceededError" THEN "BUDGET_EXCEEDED" ELSE "WRITER_ERROR"
           e == emitNeedsMore([rr EXCEPT !.exc = "none", !.caught = Append(@, rr.exc)], reason)
       IN IF e.exc # "none" THEN e
          ELSE [e EXCEPT !.result = "needs_more", !.reason = reason]

\* From the writer's return (or throw) to the driver's return (or throw).
driverAfterWriter(rr) ==
  driverCatch(IF rr.exc = "none" /\ rr.result = "ready" THEN consume(rr, "validation") ELSE rr)

(***************************************************************************)
(* A caller-supplied driver (StageRunOptions.driver), as in the            *)
(* orchestrator tests: a straight-line script of budget.consume and emit   *)
(* calls that then returns rr.ret; exceptions are not caught.              *)
(***************************************************************************)
ScriptOps == {"generation", "validation", "delta"}

RECURSIVE runScript(_, _)
runScript(rr, script) ==
  IF rr.exc # "none" THEN rr
  ELSE IF script = <<>> THEN [rr EXCEPT !.result = rr.ret, !.reason = ""]
  ELSE LET op == Head(script)
           nxt == IF op = "delta" THEN emitDelta(rr) ELSE consume(rr, op)
       IN runScript(nxt, Tail(script))

(***************************************************************************)
(* graph.ts : createStageNode                                              *)
(***************************************************************************)
\* catch (error) { ... } of the stage node, then the final return.  When the
\* emit inside the catch block throws, the node rejects.
nodeCatch(rr) ==
  LET reason == IF rr.exc = "BudgetExceededError" THEN "BUDGET_EXCEEDED" ELSE "RUNTIME_ERROR"
      e == emitNeedsMore([rr EXCEPT !.exc = "none", !.status = "needs_more",
                                    !.caught = Append(@, rr.exc)], reason)
  IN IF e.exc # "none" THEN [e EXCEPT !.pc = "threw"] ELSE [e EXCEPT !.pc = "returned"]

\* The state machine's own stage.needs_more (graph.ts line 103); steps and
\* nodeEmitAt observe that it was emitted and where in the log it stands.
nodeEmitNeedsMore(s) ==
  emitNeedsMore([s EXCEPT !.steps = Append(@, "node_needs_more"),
                          !.nodeEmitAt = Len(s.events) + 1],
                IF s.reason = "" THEN "NEEDS_MORE" ELSE s.reason)

\* A variant of the node that emits its stage.needs_more without looking at
\* what the driver emitted.
nodeAfterDriver_alwaysEmits(rr) ==
  IF rr.exc # "none" THEN nodeCatch(rr)
  ELSE IF rr.result = "needs_more"
    THEN LET e == nodeEmitNeedsMore([rr EXCEPT !.status = "needs_more"])
         IN IF e.exc # "none" THEN nodeCatch(e) ELSE [e EXCEPT !.pc = "returned"]
    ELSE [rr EXCEPT !.pc = "pre_validation", !.phases = Append(@, "pre_validation"),
                    !.steps = Append(@, "pre_validation")]

\* From the driver's return (or throw) to the next suspension point.
nodeAfterDriver(rr) ==
  IF rr.exc # "none" THEN nodeCatch(rr)
  ELSE IF rr.result = "needs_more"
    THEN LET s == [rr EXCEPT !.status = "needs_more"]
             e == IF has(s, "stage.needs_more") THEN s ELSE nodeEmitNeedsMore(s)
         IN IF e.exc # "none" THEN nodeCatch(e) ELSE [e EXCEPT !.pc = "returned"]
    ELSE [rr EXCEPT !.pc = "pre_validation", !.phases = Append(@, "pre_validation"),
                    !.steps = Append(@, "pre_validation")]

\* From the settlement of reingest(pre_validation) to the node's return.
nodeAfterPreValidation(rr, rejected) ==
  IF rejected THEN nodeCatch([rr EXCEPT !.exc = "Error"])
  ELSE LET e == emit([rr EXCEPT !.steps = Append(@, "ready")], ReadyEvent(rr.stage))
       IN IF e.exc # "none" THEN nodeCatch(e)
          ELSE [e EXCEPT !.status = "ready", !.pc = "returned"]

(***************************************************************************)
(* The stream of one /api/chat request (reply.raw).                        *)
(***************************************************************************)
IdleReq ==
  [pc |-> "new", sid |-> 0, stage |-> "", msg |-> "", outcome |-> "none",
   chatLockAcquired |-> FALSE, holds |-> FALSE, closed |-> FALSE, aborted |-> FALSE,
   rawClosed |-> FALSE, orch |-> FALSE, timedOut |-> FALSE, overtaken |-> FALSE]

\* reply.raw.write delivers a frame only while the response has neither been
\* ended (closeStream calls reply.raw.end() on an open response) nor closed.
CanWrite(r) == ~req[r].rawClosed /\ ~req[r].closed

Frame(ev, src) == [event |-> ev.event, reason |-> ev.reason, src |-> src]

\* chat.ts startOrchestrator onEvent: one frame per event passed to the callback.
onEventFrames(r, old, new) ==
  IF new.onEvent = "sse" /\ CanWrite(r)
    THEN [i \in 1..(Len(new.delivered) - Len(old.delivered)) |->
             Frame(new.delivered[Len(old.delivered) + i], "orchestrator")]
    ELSE <<>>

(***************************************************************************)
(* services/orchestrator.ts : runStage, graph.ts : createStageNode.        *)
(* Synchronous prefix up to `await reingest({phase: "stage_start"})`.      *)
(***************************************************************************)
runStage(r, sessionId, stage, budgetLimit, driver, script, ret, onEvent, throwOn, once, hook, reingestFails) ==
  [IdleRun EXCEPT !.pc = "stage_start", !.sessionId = sessionId, !.stage = stage,
                  !.limit = budgetLimit, !.count = 0, !.status = "running",
                  !.driver = driver, !.script = script, !.ret = ret,
                  !.onEvent = onEvent, !.throwOn = throwOn, !.once = once,
                  !.armed = (onEvent = "throwing"),
                  !.hook = hook, !.reingestFails = reingestFails,
                  !.phases = <<"stage_start">>, !.steps = <<"stage_start">>]

\* reingest(stage_start) has settled: the driver runs up to its first
\* suspension point (the writer's first database read), or to the end of the
\* node when it does not get that far.
afterStageStart(rr) ==
  IF "stage_start" \in rr.reingestFails
    THEN nodeCatch([rr EXCEPT !.exc = "Error"])
  ELSE IF rr.driver = "custom"
    THEN nodeAfterDriver(runScript([rr EXCEPT !.steps = Append(@, "driver")], rr.script))
  ELSE LET g == consume([rr EXCEPT !.steps = Append(@, "driver")], "generation") IN
    IF g.exc # "none" THEN nodeAfterDriver(driverCatch(g))
    ELSE IF rr.stage = "export"
      THEN nodeAfterDriver(driverAfterWriter(runExportStage(g)))
    ELSE [g EXCEPT !.pc = "writer_read"]

\* services/orchestrator.ts refreshContext only logs: awaiting it yields no
\* suspension point at which another request or event could run, so with
\* the default hook the node continues in the same synchronous block.
settle(rr) ==
  IF rr.hook # "default" THEN rr
  ELSE IF rr.pc = "stage_start" THEN afterStageStart(rr)
  ELSE IF rr.pc = "pre_validation" THEN nodeAfterPreValidation(rr, FALSE)
  ELSE rr

\* One synchronous block of a stage run: new run locals, and the frames its
\* onEvent calls wrote.
StepRun(r, new) ==
  /\ run' = [run EXCEPT ![r] = settle(new)]
  /\ wire' = [wire EXCEPT ![r] = @ \o onEventFrames(r, run[r], settle(new))]

\* A caller-supplied asynchronous re-ingestion hook settles (stage_start).
ReingestStageStart(r) ==
  /\ run[r].pc = "stage_start"
  /\ StepRun(r, afterStageStart(run[r]))
  /\ UNCHANGED <<activeChat, counters, now, req, docs, chat, faults, sessions, designs, api, client, limiter, reply, stream>>

\* writers.ts buildSpecDoc / buildDesignPrompt / buildPromptPlanDoc /
\* buildAgentsDoc on the token contents.  "heading" stands for the name of a
\* one-pager section: buildSpecDoc repeats the headings extractSections
\* finds in the one-pager, and its own text names none of the sections.
buildSpecDoc(onePager) ==
  (IF \E i \in 1..Len(onePager) : onePager[i] = "heading" THEN <<"heading">> ELSE <<>>)
    \o <<"text", "dod", "wide">>
buildDesignPrompt(specDoc) == <<"text">>
buildPromptPlanDoc(specDoc, currentPlan) == <<"text", "heading", "dod", "wide">>
buildAgentsDoc(d) == <<"text", "agent", "wide">>

\* The content the templated writer of the stage builds from the documents d.
buildDoc(stage, d) ==
  CASE stage = "spec" -> buildSpecDoc(d["idea_one_pager.md"].content)
    [] stage = "design" -> buildDesignPrompt(d["spec.md"].content)
    [] stage = "prompt_plan" -> buildPromptPlanDoc(d["spec.md"].content, d["prompt_plan.md"].content)
    [] stage = "agents" -> buildAgentsDoc(d)
    [] OTHER -> TemplateContent

\* fetchIntakeConversation
IntakeConversation(sessionId) ==
  SelectSeq(chat[sessionId], LAMBDA m : m.stage = "intake")

\* The writer's first database read resolves (ok) or rejects.
WriterRead(r, ok) ==
  /\ run[r].pc = "writer_read"
  /\ LET rr == run[r] IN
       IF ~ok THEN StepRun(r, nodeAfterDriver(driverAfterWriter([rr EXCEPT !.exc = "Error"])))
       ELSE IF rr.stage = "intake"
         THEN IF Len(IntakeConversation(rr.sessionId)) > 0
                THEN StepRun(r, [rr EXCEPT !.pc = "writer_gen"])
                ELSE StepRun(r, [rr EXCEPT !.pc = "writer_write", !.content = TemplateContent])
       ELSE IF ~hasContent(docs[rr.sessionId][UpstreamDoc(rr.stage)].content)
         THEN StepRun(r, nodeAfterDriver(driverAfterWriter(failNeedsMore(rr, MissingReason(rr.stage)))))
       ELSE StepRun(r, [rr EXCEPT !.pc = "writer_write",
                                  !.content = buildDoc(rr.stage, docs[rr.sessionId])])
  /\ ok \/ faults < MaxFaults
  /\ faults' = IF ok THEN faults ELSE faults + 1
  /\ UNCHANGED <<activeChat, counters, now, req, docs, chat, sessions, designs, api, client, limiter, reply, stream>>

\* runIntakeStage: draftIdeaDocWithModel(conversation).catch(() => undefined)
WriterGen(r, ok) ==
  /\ run[r].pc = "writer_gen"
  /\ StepRun(r, [run[r] EXCEPT !.pc = "writer_write",
                               !.content = IF ok THEN DraftedContent ELSE TemplateContent])
  /\ ok \/ faults < MaxFaults
  /\ faults' = IF ok THEN faults ELSE faults + 1
  /\ UNCHANGED <<activeChat, counters, now, req, docs, chat, sessions, designs, api, client, limiter, reply, stream>>

\* runIntakeStage: generateResponse inside draftIdeaDocWithModel rejects after
\* REQUEST_TIMEOUT_MS; .catch(() => undefined) turns the rejection into the
\* template document.  timedOut records that the call timed out.
WriterGenTimeout(r) ==
  /\ run[r].pc = "writer_gen"
  /\ StepRun(r, [run[r] EXCEPT !.pc = "writer_write", !.content = TemplateContent,
                               !.timedOut = TRUE])
  /\ faults < MaxFaults
  /\ faults' = faults + 1
  /\ UNCHANGED <<activeChat, counters, now, req, docs, chat, sessions, designs, api, client, limiter, reply, stream>>

\* writeDoc: UPDATE docs SET content WHERE session_id AND name
writeDoc(sessionId, name, content) ==
  [docs EXCEPT ![sessionId][name].content = content]

\* writeDoc resolves (ok) or rejects; then the rest of writer and driver.
WriterWrite(r, ok) ==
  /\ run[r].pc = "writer_write"
  /\ LET rr == run[r] IN
       IF ok
         THEN /\ docs' = writeDoc(rr.sessionId, TargetDoc(rr.stage), rr.content)
              /\ StepRun(r, nodeAfterDriver(driverAfterWriter(writerTail(
                     [rr EXCEPT !.wrote = Append(@, [name |-> TargetDoc(rr.stage),
                                                     content |-> rr.content,
                                                     at |-> Len(rr.events)])]))))
         ELSE /\ docs' = docs
              /\ StepRun(r, nodeAfterDriver(driverAfterWriter([rr EXCEPT !.exc = "Error"])))
  /\ ok \/ faults < MaxFaults
  /\ faults' = IF ok THEN faults ELSE faults + 1
  /\ UNCHANGED <<activeChat, counters, now, req, chat, sessions, designs, api, client, limiter, reply, stream>>

\* A caller-supplied asynchronous re-ingestion hook settles (pre_validation);
\* stage.ready; the node returns.
ReingestPreValidation(r) ==
  /\ run[r].pc = "pre_validation"
  /\ StepRun(r, nodeAfterPreValidation(run[r], "pre_validation" \in run[r].reingestFails))
  /\ UNCHANGED <<activeChat, counters, now, req, docs, chat, faults, sessions, designs, api, client, limiter, reply, stream>>

RunFinished(r) == run[r].pc \in {"returned", "threw"}
RunInFlight(r) == run[r].pc \notin {"idle", "returned", "threw"}

(***************************************************************************)
(* Direct callers of runStage (the orchestrator tests): any stage, budget  *)
(* limit, driver, onEvent callback and re-ingestion hook.                  *)
(***************************************************************************)
StandaloneRuns == {1}

BudgetLimits == (0..MaxBudgetLimit) \cup {MAX_STAGE_LLM_CALLS}

RECURSIVE SeqsUpTo(_, _)
SeqsUpTo(S, n) ==
  IF n = 0 THEN {<<>>}
  ELSE LET shorter == SeqsUpTo(S, n - 1)
       IN shorter \cup {Append(q, x) : q \in shorter, x \in S}

Scripts == SeqsUpTo(ScriptOps, MaxScript)

\* Callbacks: absent, collecting, or throwing on one event kind (every time
\* or only the first time).
Callbacks ==
  {[onEvent |-> "none", throwOn |-> {}, once |-> FALSE],
   [onEvent |-> "collect", throwOn |-> {}, once |-> FALSE]}
  \cup {[onEvent |-> "throwing", throwOn |-> {k}, once |-> o] : k \in EventKinds, o \in BOOLEAN}

ReingestHooks == {{}, {"stage_start"}, {"pre_validation"}}

CallRunStage(r) ==
  /\ run[r].pc = "idle"
  /\ \E limit \in BudgetLimits, cb \in Callbacks, hook \in ReingestHooks :
       \/ \E sessionId \in Sessions, stage \in StageNodes :
            run' = [run EXCEPT ![r] = runStage(r, sessionId, stage, limit, "default", <<>>, "ready",
                                               cb.onEvent, cb.throwOn, cb.once, "custom", hook)]
       \/ \E script \in Scripts, ret \in {"ready", "needs_more"} :
            run' = [run EXCEPT ![r] = runStage(r, 1, "design", limit, "custom", script, ret,
                                               cb.onEvent, cb.throwOn, cb.once, "custom", hook)]
  /\ UNCHANGED <<activeChat, counters, now, req, wire, docs, chat, faults, sessions, designs, api, client, limiter, reply, stream>>

(***************************************************************************)
(* Stored state of a session when the model starts: right after            *)
(* POST /api/session/init (no documents, no messages), after an intake     *)
(* interview (messages, no documents), or with documents already filled    *)
(* in by earlier stages or by PUT /api/docs/:name.                         *)
(***************************************************************************)
EmptyDocs == [d \in docNames |-> [content |-> <<>>, approved |-> FALSE]]
FilledDocs == [d \in docNames |-> [content |-> <<"text">>, approved |-> FALSE]]
UserMessage(stage, kind) == [stage |-> stage, role |-> "user", kind |-> kind]

StoredSessions ==
  {[docs |-> EmptyDocs, chat |-> <<>>],
   [docs |-> EmptyDocs, chat |-> <<UserMessage("intake", "plain")>>],
   [docs |-> FilledDocs, chat |-> <<UserMessage("intake", "plain")>>]}

InitStore ==
  \E st \in [Sessions -> StoredSessions] :
    /\ docs = [s \in Sessions |-> st[s].docs]
    /\ chat = [s \in Sessions |-> st[s].chat]

InitRun ==
  /\ activeChat = {}
  /\ counters = [k \in Sessions \X {"chat:minute", "chat:hour"} |-> [count |-> 0, resetAt |-> 0]]
  /\ now = 0
  /\ req = [r \in Requests |-> IdleReq]
  /\ wire = [r \in Requests |-> <<>>]
  /\ run = [r \in Requests |-> IdleRun]
  /\ faults = 0
  /\ InitStore
  /\ sessions = [s \in Sessions |-> NewSession]
  /\ designs = [s \in Sessions |-> 0]
  /\ api = [a \in ApiRequests |-> IdleApi]
  /\ client = IdleClient
  /\ limiter = NoCalls
  /\ reply = NoReply
  /\ stream = NoStream

NextRun ==
  \E r \in StandaloneRuns :
    \/ CallRunStage(r)
    \/ ReingestStageStart(r)
    \/ \E ok \in BOOLEAN : WriterRead(r, ok)
    \/ \E ok \in BOOLEAN : WriterGen(r, ok)
    \/ WriterGenTimeout(r)
    \/ \E ok \in BOOLEAN : WriterWrite(r, ok)
    \/ ReingestPreValidation(r)

SpecRun == InitRun /\ [][NextRun]_vars

(***************************************************************************)
(* plugins/rate-limit : InMemoryRateLimiter                                *)
(***************************************************************************)
Buckets == {"chat:minute", "chat:hour"}
NoCounter == [count |-> 0, resetAt |-> 0]

\* Math.ceil((resetAt - now) / 1000)
CeilSeconds(ms) == (ms + 999) \div 1000

\* A variant of check that compares the count with <= limit.
check_countsPastLimit(cs, sid, bucket, limit, windowMs, t) ==
  LET current == cs[<<sid, bucket>>] IN
    IF current = NoCounter \/ t >= current.resetAt
      THEN [ok |-> TRUE, remaining |-> limit - 1, retryAfterSec |-> 0,
            counters |-> [cs EXCEPT ![<<sid, bucket>>] = [count |-> 1, resetAt |-> t + windowMs]]]
    ELSE IF current.count <= limit
      THEN [ok |-> TRUE, remaining |-> limit - (current.count + 1), retryAfterSec |-> 0,
            counters |-> [cs EXCEPT ![<<sid, bucket>>].count = @ + 1]]
    ELSE [ok |-> FALSE, remaining |-> 0,
          retryAfterSec |-> CeilSeconds(current.resetAt - t), counters |-> cs]

\* check(sid, bucket, limit, windowMs) at time t on the counter map cs:
\* the result and the counter map it leaves.
check(cs, sid, bucket, limit, windowMs, t) ==
  LET current == cs[<<sid, bucket>>] IN
    IF current = NoCounter \/ t >= current.resetAt
      THEN [ok |-> TRUE, remaining |-> limit - 1, retryAfterSec |-> 0,
            counters |-> [cs EXCEPT ![<<sid, bucket>>] = [count |-> 1, resetAt |-> t + windowMs]]]
    ELSE IF current.count < limit
      THEN [ok |-> TRUE, remaining |-> limit - (current.count + 1), retryAfterSec |-> 0,
            counters |-> [cs EXCEPT ![<<sid, bucket>>].count = @ + 1]]
    ELSE [ok |-> FALSE, remaining |-> 0,
          retryAfterSec |-> CeilSeconds(current.resetAt - t), counters |-> cs]

\* A variant of acquireChat that forgets the membership test.
acquireChat_noTest(active, sid) == [ok |-> TRUE, activeChat |-> active \cup {sid}]

\* acquireChat(sid): the result and the set it leaves.
acquireChat(active, sid) ==
  IF sid \in active THEN [ok |-> FALSE, activeChat |-> active]
  ELSE [ok |-> TRUE, activeChat |-> active \cup {sid}]

\* A variant of releaseChat that adds the session when it is absent.
releaseChat_toggle(active, sid) ==
  IF sid \in active THEN active \ {sid} ELSE active \cup {sid}

\* A variant of releaseChat that leaves the session in the set.
releaseChat_noDelete(active, sid) == active

releaseChat(active, sid) == active \ {sid}

(***************************************************************************)
(* routes/api/chat.ts : POST /api/chat                                     *)
(***************************************************************************)
\* Stages sent by the modelled clients: one that waits for confirmation
\* (STAGE_READY_FLAGS) and one that runs immediately.
ChatStageInputs == {"intake", "design"}
\* User messages: ordinary text, an affirmative reply, a draft command.
UserKinds == {"plain", "yes", "draft"}
\* Assistant replies: ordinary text, or text ending with the ready flag.
AssistantKinds == {"plain", "flag"}

\* Request bodies: the wording of the message only matters for a stage that
\* waits for confirmation.
ChatBodies ==
  {b \in [stage : ChatStageInputs, message : UserKinds] :
     b.message = "plain" \/ b.stage = "intake"}

validStage(stageParam) == stageParam \in StageSet
stageReadyFlag(stageParam) == IF validStage(stageParam) THEN STAGE_READY_FLAGS[stageParam] ELSE ""
enableBridge == TRUE
stageRequiresConfirmation(stageParam) == enableBridge /\ stageReadyFlag(stageParam) # ""
runStageImmediately(stageParam) ==
  enableBridge /\ validStage(stageParam) /\ ~stageRequiresConfirmation(stageParam)

\* The handler has returned: only what the request did to the lock is kept.
Finished(q, outcome) ==
  [IdleReq EXCEPT !.pc = "done", !.sid = q.sid, !.outcome = outcome,
                  !.chatLockAcquired = q.chatLockAcquired, !.holds = q.holds]

\* onRequest hook: single-flight lock taken before the handler runs.
OnRequest(r, sid) ==
  /\ req[r].pc = "new"
  /\ \A q \in Requests : q < r => req[q].pc # "new"
  /\ LET a == acquireChat(activeChat, sid) IN
       /\ activeChat' = a.activeChat
       /\ req' = [req EXCEPT ![r] =
            IF a.ok
              THEN [@ EXCEPT !.pc = "handler", !.sid = sid,
                             !.chatLockAcquired = TRUE, !.holds = TRUE]
              ELSE [@ EXCEPT !.pc = "done", !.sid = sid, !.outcome = "CHAT_STREAM_ACTIVE"]]
  /\ UNCHANGED <<counters, now, wire, run, docs, chat, faults, sessions, designs, api, client, limiter, reply, stream>>

\* Handler up to `await db.insert(chatMessages)`: the two rate windows, then
\* the body (stage, message) is read.
Handler(r, stage, msg) ==
  /\ req[r].pc = "handler"
  /\ LET sid == req[r].sid
         minute == check(counters, sid, "chat:minute", CHAT_MINUTE_LIMIT, CHAT_MINUTE_WINDOW_MS, now)
         hour == check(minute.counters, sid, "chat:hour", CHAT_HOUR_LIMIT, CHAT_HOUR_WINDOW_MS, now)
     IN IF ~minute.ok
          THEN /\ counters' = minute.counters
               /\ req' = [req EXCEPT ![r].pc = "done", ![r].outcome = "RATE_LIMIT_EXCEEDED"]
        ELSE IF ~hour.ok
          THEN /\ counters' = hour.counters
               /\ req' = [req EXCEPT ![r].pc = "done", ![r].outcome = "RATE_LIMIT_EXCEEDED"]
        ELSE /\ counters' = hour.counters
             /\ req' = [req EXCEPT ![r].pc = "insert", ![r].stage = stage, ![r].msg = msg]
  /\ UNCHANGED <<activeChat, now, wire, run, docs, chat, faults, sessions, designs, api, client, limiter, reply, stream>>

\* startOrchestrator(): runStage with the default driver, the default budget,
\* the default re-ingestion hook and the SSE-writing onEvent.
startOrchestrator(r, sid, stage) ==
  runStage(r, sid, stage, MAX_STAGE_LLM_CALLS, "default", <<>>, "ready", "sse", {}, FALSE, "default", {})

\* The user message was stored (ok): response hijacked, listeners registered,
\* orchestrator started for an immediate stage, history query issued.
\* Or the insert failed: the lock is released and the error rethrown.
InsertUserMessage(r, ok) ==
  /\ req[r].pc = "insert"
  /\ LET sid == req[r].sid
         stage == req[r].stage
     IN IF ok
          THEN /\ chat' = [chat EXCEPT ![sid] = Append(@,
                     [stage |-> IF validStage(stage) THEN stage ELSE "", role |-> "user", kind |-> req[r].msg])]
               /\ activeChat' = activeChat
               /\ IF runStageImmediately(stage)
                    THEN /\ StepRun(r, startOrchestrator(r, sid, stage))
                         /\ req' = [req EXCEPT ![r].pc = "history", ![r].orch = TRUE]
                    ELSE /\ UNCHANGED <<run, wire>>
                         /\ req' = [req EXCEPT ![r].pc = "history"]
          ELSE /\ chat' = chat
               /\ UNCHANGED <<run, wire>>
               /\ activeChat' = IF req[r].chatLockAcquired THEN releaseChat(activeChat, sid) ELSE activeChat
               /\ req' = [req EXCEPT ![r] = Finished([@ EXCEPT !.holds = FALSE], "INSERT_FAILED")]
  /\ ok \/ faults < MaxFaults
  /\ faults' = IF ok THEN faults ELSE faults + 1
  /\ UNCHANGED <<counters, now, docs, sessions, designs, api, client, limiter, reply, stream>>

\* A variant of closeStream without the `closed` flag.
closeStream_everyTime(q, active) ==
  [req |-> [q EXCEPT !.closed = TRUE, !.holds = FALSE],
   activeChat |-> releaseChat(active, q.sid)]

\* closeStream(): the effect on the request locals and on the lock set.
closeStream(q, active) ==
  IF q.closed THEN [req |-> q, activeChat |-> active]
  ELSE [req |-> [q EXCEPT !.closed = TRUE, !.holds = FALSE],
        activeChat |-> releaseChat(active, q.sid)]

\* reply.raw.write(formatEvent(...)) guarded by `!reply.raw.closed`.
rawWrite(r, frames) == IF CanWrite(r) THEN wire[r] \o frames ELSE wire[r]

NeedsMoreFrame(reason) == [event |-> "stage.needs_more", reason |-> reason, src |-> "chat"]
AssistantFrame == [event |-> "assistant.delta", reason |-> "", src |-> "chat"]

\* chat.ts normalizeUserText / isStrongDraftCommand / AFFIRMATIVE_RESPONSE_PATTERN
\* on the abstract message kinds.
isStrongDraftCommand(kind) == kind = "draft"
isAffirmative(kind) == kind \in {"yes", "draft"}

RECURSIVE assistantRecentlyPrompted(_)
assistantRecentlyPrompted(messages) ==
  IF messages = <<>> THEN FALSE
  ELSE LET m == Last(messages) IN
    IF m.role = "assistant" THEN m.kind = "flag"
    ELSE assistantRecentlyPrompted(SubSeq(messages, 1, Len(messages) - 1))

\* A variant of shouldTriggerStageRun that does not look for the marker.
shouldTriggerStageRun_anyAffirmative(messages, readyFlag) ==
  IF messages = <<>> THEN FALSE
  ELSE LET last == Last(messages) IN
    IF last.role # "user" THEN FALSE
    ELSE IF isStrongDraftCommand(last.kind) THEN TRUE
    ELSE readyFlag # "" /\ isAffirmative(last.kind)

shouldTriggerStageRun(messages, readyFlag) ==
  IF messages = <<>> THEN FALSE
  ELSE LET last == Last(messages) IN
    IF last.role # "user" THEN FALSE
    ELSE IF isStrongDraftCommand(last.kind) THEN TRUE
    ELSE IF readyFlag = "" THEN FALSE
    ELSE IF ~isAffirmative(last.kind) THEN FALSE
    ELSE assistantRecentlyPrompted(SubSeq(messages, 1, Len(messages) - 1))

\* db.query.chatMessages.findMany for this session and stage
StageMessages(sid, stage) ==
  SelectSeq(chat[sid], LAMBDA m : IF validStage(stage) THEN m.stage = stage ELSE m.stage # "")

\* The history query resolved (ok): a confirmed interactive stage starts the
\* orchestrator, then generateResponse is called.  Or it rejected: the
\* generic catch branch sends SERVER_ERROR and waits for the orchestrator.
LoadHistory(r, ok) ==
  /\ req[r].pc = "history"
  /\ LET sid == req[r].sid
         stage == req[r].stage
     IN IF ok
          THEN IF stageRequiresConfirmation(stage) /\ validStage(stage)
                     /\ shouldTriggerStageRun(StageMessages(sid, stage), stageReadyFlag(stage))
                    THEN /\ StepRun(r, startOrchestrator(r, sid, stage))
                         /\ req' = [req EXCEPT ![r].pc = "generating", ![r].orch = TRUE]
                    ELSE /\ UNCHANGED <<run, wire>>
                         /\ req' = [req EXCEPT ![r].pc = "generating"]
          ELSE /\ wire' = [wire EXCEPT ![r] = rawWrite(r, <<NeedsMoreFrame("SERVER_ERROR")>>)]
               /\ run' = run
               /\ req' = [req EXCEPT ![r].pc = "await_orch"]
  /\ ok \/ faults < MaxFaults
  /\ faults' = IF ok THEN faults ELSE faults + 1
  /\ UNCHANGED <<activeChat, counters, now, docs, chat, sessions, designs, api, client, limiter, reply, stream>>

\* generateResponse resolved with an assistant reply of the given kind:
\* the reply is streamed (ready flag stripped) and its insert is issued.
GenerateResolved(r, kind) ==
  /\ req[r].pc = "generating"
  /\ kind = "flag" => stageReadyFlag(req[r].stage) # ""
  /\ wire' = [wire EXCEPT ![r] = rawWrite(r, <<AssistantFrame>>)]
  /\ req' = [req EXCEPT ![r].pc = "save_assistant", ![r].msg = kind]
  /\ UNCHANGED <<activeChat, counters, now, run, docs, chat, faults, sessions, designs, api, client, limiter, reply, stream>>

\* generateResponse rejected: abort (silent), timeout (TIMEOUT) or any other
\* error (SERVER_ERROR); each branch then waits for the orchestrator.
GenerateRejected(r, error) ==
  /\ req[r].pc = "generating"
  /\ error = "abort" => req[r].aborted
  /\ wire' = [wire EXCEPT ![r] =
       CASE error = "abort" -> @
         [] error = "timeout" -> rawWrite(r, <<NeedsMoreFrame("TIMEOUT")>>)
         [] OTHER -> rawWrite(r, <<NeedsMoreFrame("SERVER_ERROR")>>)]
  /\ req' = [req EXCEPT ![r].pc = "await_orch", ![r].timedOut = (error = "timeout")]
  /\ error = "abort" \/ faults < MaxFaults
  /\ faults' = IF error = "abort" THEN faults ELSE faults + 1
  /\ UNCHANGED <<activeChat, counters, now, run, docs, chat, sessions, designs, api, client, limiter, reply, stream>>

\* A variant of SaveAssistant that overwrites the latest row of the session.
SaveAssistant_overwrites(r, ok) ==
  /\ req[r].pc = "save_assistant"
  /\ chat' = IF ok THEN [chat EXCEPT ![req[r].sid] = Append(SubSeq(@, 1, Len(@) - 1),
                  [stage |-> IF validStage(req[r].stage) THEN req[r].stage ELSE "",
                   role |-> "assistant", kind |-> req[r].msg])]
             ELSE chat
  /\ req' = [req EXCEPT ![r].pc = "await_orch"]
  /\ ok \/ faults < MaxFaults
  /\ faults' = IF ok THEN faults ELSE faults + 1
  /\ UNCHANGED <<activeChat, counters, now, wire, run, docs, sessions, designs, api, client, limiter, reply, stream>>

\* The insert of the assistant message settled; a failure is only logged.
SaveAssistant(r, ok) ==
  /\ req[r].pc = "save_assistant"
  /\ chat' = IF ok THEN [chat EXCEPT ![req[r].sid] = Append(@,
                  [stage |-> IF validStage(req[r].stage) THEN req[r].stage ELSE "",
                   role |-> "assistant", kind |-> req[r].msg])]
             ELSE chat
  /\ req' = [req EXCEPT ![r].pc = "await_orch"]
  /\ ok \/ faults < MaxFaults
  /\ faults' = IF ok THEN faults ELSE faults + 1
  /\ UNCHANGED <<activeChat, counters, now, wire, run, docs, sessions, designs, api, client, limiter, reply, stream>>

\* `await Promise.resolve(orchestratorPromise)` resolved (runStage rejections
\* are caught and logged); closeStream() ends the request.
AwaitOrchestrator(r) ==
  /\ req[r].pc = "await_orch"
  /\ ~req[r].orch \/ RunFinished(r)
  /\ LET c == closeStream(req[r], activeChat) IN
       /\ req' = [req EXCEPT ![r] =
            [Finished(c.req, "streamed") EXCEPT !.overtaken =
               \E q \in Requests \ {r} : req[q].holds /\ req[q].sid = req[r].sid]]
       /\ activeChat' = c.activeChat
  /\ wire' = [wire EXCEPT ![r] = <<>>]
  /\ run' = [run EXCEPT ![r] = IdleRun]
  /\ UNCHANGED <<counters, now, docs, chat, faults, sessions, designs, api, client, limiter, reply, stream>>

\* The listeners on request.raw and reply.raw exist from the hijack on.
Streaming(r) == req[r].pc \in {"history", "generating", "save_assistant", "await_orch"}

\* request.raw 'aborted': handleClientAbort; the socket is gone.
ClientAbort(r) ==
  /\ Streaming(r) /\ ~req[r].rawClosed /\ ~req[r].closed
  /\ LET c == closeStream([req[r] EXCEPT !.aborted = TRUE], activeChat) IN
       /\ req' = [req EXCEPT ![r] = [c.req EXCEPT !.rawClosed = TRUE]]
       /\ activeChat' = c.activeChat
  /\ faults < MaxFaults
  /\ faults' = faults + 1
  /\ UNCHANGED <<counters, now, wire, run, docs, chat, sessions, designs, api, client, limiter, reply, stream>>

\* reply.raw 'close' without an abort: the safety-net listener.
TransportClose(r) ==
  /\ Streaming(r) /\ ~req[r].rawClosed
  /\ LET c == closeStream([req[r] EXCEPT !.rawClosed = TRUE], activeChat) IN
       /\ req' = [req EXCEPT ![r] = c.req]
       /\ activeChat' = c.activeChat
  /\ faults < MaxFaults
  /\ faults' = faults + 1
  /\ UNCHANGED <<counters, now, wire, run, docs, chat, sessions, designs, api, client, limiter, reply, stream>>

\* reply.raw 'error': the stream is unusable; the listener closes the stream.
TransportError(r) ==
  /\ Streaming(r) /\ ~req[r].rawClosed
  /\ LET c == closeStream(req[r], activeChat) IN
       /\ req' = [req EXCEPT ![r] = [c.req EXCEPT !.rawClosed = TRUE]]
       /\ activeChat' = c.activeChat
  /\ faults < MaxFaults
  /\ faults' = faults + 1
  /\ UNCHANGED <<counters, now, wire, run, docs, chat, sessions, designs, api, client, limiter, reply, stream>>

(***************************************************************************)
(* The server: limiter state left by earlier, completed requests of a      *)
(* session (no lock held): no window open, the minute window used up, or   *)
(* the hour window used up.                                                *)
(***************************************************************************)
RateStates ==
  {[minute |-> NoCounter, hour |-> NoCounter],
   [minute |-> [count |-> CHAT_MINUTE_LIMIT, resetAt |-> CHAT_MINUTE_WINDOW_MS],
    hour |-> [count |-> CHAT_MINUTE_LIMIT, resetAt |-> CHAT_HOUR_WINDOW_MS]],
   [minute |-> [count |-> 1, resetAt |-> CHAT_MINUTE_WINDOW_MS],
    hour |-> [count |-> CHAT_HOUR_LIMIT, resetAt |-> CHAT_HOUR_WINDOW_MS]]}

Init ==
  /\ activeChat = {}
  /\ now = 0
  /\ \E warm \in Sessions, rs \in RateStates :
       counters = [k \in Sessions \X Buckets |->
                     IF k[1] # warm THEN NoCounter
                     ELSE IF k[2] = "chat:minute" THEN rs.minute ELSE rs.hour]
  /\ req = [r \in Requests |-> IdleReq]
  /\ wire = [r \in Requests |-> <<>>]
  /\ run = [r \in Requests |-> IdleRun]
  /\ docs = [s \in Sessions |-> EmptyDocs]
  /\ chat = [s \in Sessions |-> <<>>]
  /\ faults = 0
  /\ sessions = [s \in Sessions |-> NewSession]
  /\ designs = [s \in Sessions |-> 0]
  /\ api = [a \in ApiRequests |-> IdleApi]
  /\ client = IdleClient
  /\ limiter = NoCalls
  /\ reply = NoReply
  /\ stream = NoStream

Next ==
  \E r \in Requests :
    \/ \E sid \in Sessions : OnRequest(r, sid)
    \/ \E body \in ChatBodies : Handler(r, body.stage, body.message)
    \/ \E ok \in BOOLEAN : InsertUserMessage(r, ok)
    \/ \E ok \in BOOLEAN : LoadHistory(r, ok)
    \/ \E kind \in AssistantKinds : GenerateResolved(r, kind)
    \/ \E error \in {"abort", "timeout", "error"} : GenerateRejected(r, error)
    \/ \E ok \in BOOLEAN : SaveAssistant(r, ok)
    \/ AwaitOrchestrator(r)
    \/ ClientAbort(r)
    \/ TransportClose(r)
    \/ TransportError(r)
    \/ \E ok \in BOOLEAN : WriterRead(r, ok)
    \/ \E ok \in BOOLEAN : WriterGen(r, ok)
    \/ WriterGenTimeout(r)
    \/ \E ok \in BOOLEAN : WriterWrite(r, ok)

Spec == Init /\ [][Next]_vars

(***************************************************************************)
(* validators/stage-validator.ts                                           *)
(***************************************************************************)
okResult == [ok |-> TRUE, reasons |-> <<>>]
fail(reasons) == [ok |-> FALSE, reasons |-> reasons]

\* hasSection for the one-pager sections; the regular expressions of
\* validateSpec and validateAgents
hasSection(content) == \E i \in 1..Len(content) : content[i] = "heading"
hasDefinitionOfDone(content) == \E i \in 1..Len(content) : content[i] = "dod"
hasAgentResponsibility(content) == \E i \in 1..Len(content) : content[i] = "agent"

requireDocContent(d, docName, message) ==
  IF ~hasContent(d[docName].content) THEN fail(<<message>>) ELSE okResult

validateIntake(d) ==
  IF ~hasContent(d["idea_one_pager.md"].content) THEN fail(<<"idea_one_pager.md is empty.">>)
  ELSE IF ~hasSection(d["idea_one_pager.md"].content) THEN fail(<<"Missing sections">>)
  ELSE okResult

validateSpec(d) ==
  IF ~hasContent(d["spec.md"].content) THEN fail(<<"spec.md is empty.">>)
  ELSE LET reasons ==
             (IF ~hasDefinitionOfDone(d["spec.md"].content)
                THEN <<"spec.md must include a Definition of Done section.">> ELSE <<>>)
             \o (IF ~hasSection(d["spec.md"].content)
                   THEN <<"spec.md must reference prior docs">> ELSE <<>>)
       IN IF Len(reasons) > 0 THEN fail(reasons) ELSE okResult

validateDesign(g) ==
  IF g = 0 THEN fail(<<"Upload at least one design">>) ELSE okResult

validatePromptPlan(d) == requireDocContent(d, "prompt_plan.md", "prompt_plan.md is empty.")

validateAgents(d) ==
  IF ~hasContent(d["AGENTS.md"].content) THEN fail(<<"AGENTS.md is empty.">>)
  ELSE IF ~hasAgentResponsibility(d["AGENTS.md"].content)
         THEN fail(<<"AGENTS.md must include the Agent responsibility section.">>)
  ELSE okResult

validateExport(d) ==
  IF \E name \in docNames : ~hasContent(d[name].content)
    THEN fail(<<"Docs missing content">>) ELSE okResult

\* validateStage over the docs rows d and the designs count g of the session;
\* stageValidators has no entry for one_pager.
validateStage(d, g, stage) ==
  CASE stage = "intake" -> validateIntake(d)
    [] stage = "spec" -> validateSpec(d)
    [] stage = "design" -> validateDesign(g)
    [] stage = "prompt_plan" -> validatePromptPlan(d)
    [] stage = "agents" -> validateAgents(d)
    [] stage = "export" -> validateExport(d)
    [] OTHER -> fail(<<"Stage validator missing">>)

\* validateStage called on its own, as the validator tests do, on stored
\* documents of every content up to MaxContent tokens.
CallValidateStage(a, sessionId, stage) ==
  /\ api[a].pc = "new"
  /\ api' = [api EXCEPT ![a] =
               [IdleApi EXCEPT !.kind = "validate", !.pc = "done", !.sid = sessionId, !.stage = stage,
                               !.validation = validateStage(docs[sessionId], designs[sessionId], stage)]]
  /\ UNCHANGED <<activeChat, counters, now, req, wire, run, docs, chat, faults, sessions, designs, client, limiter, reply, stream>>

RECURSIVE ContentsUpTo(_)
ContentsUpTo(n) ==
  IF n = 0 THEN {<<>>}
  ELSE ContentsUpTo(n - 1) \cup {Append(c, t) : c \in ContentsUpTo(n - 1), t \in ContentTokens}

InitValidate ==
  /\ activeChat = {}
  /\ counters = [k \in Sessions \X {"chat:minute", "chat:hour"} |-> [count |-> 0, resetAt |-> 0]]
  /\ now = 0
  /\ req = [r \in Requests |-> IdleReq]
  /\ wire = [r \in Requests |-> <<>>]
  /\ run = [r \in Requests |-> IdleRun]
  /\ chat = [s \in Sessions |-> <<>>]
  /\ faults = 0
  /\ sessions = [s \in Sessions |-> NewSession]
  /\ api = [a \in ApiRequests |-> IdleApi]
  /\ client = IdleClient
  /\ limiter = NoCalls
  /\ reply = NoReply
  /\ stream = NoStream
  /\ \E g \in 0..1 : designs = [s \in Sessions |-> g]
  /\ \E idea \in ContentsUpTo(MaxContent), staged \in ContentsUpTo(MaxContent) :
       docs = [s \in Sessions |-> [name \in docNames |->
                 [content |-> IF name = "idea.md" THEN idea ELSE staged, approved |-> FALSE]]]

NextValidate ==
  \E a \in ApiRequests, sessionId \in Sessions, stage \in StageSet :
    CallValidateStage(a, sessionId, stage)

SpecValidate == InitValidate /\ [][NextValidate]_vars

(***************************************************************************)
(* POST /api/stages/:stage/approve                                         *)
(***************************************************************************)
stageDocMap(stage) ==
  CASE stage = "intake" -> "idea_one_pager.md"
    [] stage = "spec" -> "spec.md"
    [] stage = "prompt_plan" -> "prompt_plan.md"
    [] stage = "agents" -> "AGENTS.md"
    [] OTHER -> ""

indexOf(stage) == CHOOSE i \in 1..Len(stageNames) : stageNames[i] = stage

\* stageNames[index + 1] ?? stage
nextStage(stage) ==
  IF indexOf(stage) < Len(stageNames) THEN stageNames[indexOf(stage) + 1] ELSE stage

\* A variant of buildSessionUpdates that sets the flag of the next stage.
buildSessionUpdates_nextFlag(row, stage) ==
  [row EXCEPT !.currentStage = nextStage(stage),
              !.approved = IF nextStage(stage) \in {"intake", "spec", "design", "prompt_plan", "agents"}
                             THEN [@ EXCEPT ![nextStage(stage)] = TRUE] ELSE @]

\* The session row after UPDATE sessions SET buildSessionUpdates(stage);
\* the last_activity timestamp is left out.
buildSessionUpdates(row, stage) ==
  [row EXCEPT !.currentStage = nextStage(stage),
              !.approved = IF stage \in {"intake", "spec", "design", "prompt_plan", "agents"}
                             THEN [@ EXCEPT ![stage] = TRUE] ELSE @]

\* The docs rows of the session after the transaction's first UPDATE.
approveDoc(d, stage) ==
  IF stageDocMap(stage) # "" THEN [d EXCEPT ![stageDocMap(stage)].approved = TRUE] ELSE d

\* db.transaction: both updates commit together.
approveTransaction_docOnly(st, sessionId, stage) ==
  [docs |-> [st.docs EXCEPT ![sessionId] = approveDoc(@, stage)],
   sessions |-> st.sessions]
approveTransaction(st, sessionId, stage) ==
  [docs |-> [st.docs EXCEPT ![sessionId] = approveDoc(@, stage)],
   sessions |-> [st.sessions EXCEPT ![sessionId] = buildSessionUpdates(@, stage)]]

ApproveStageInputs == StageSet \cup {"unknown"}
Reply(a, status) == [api EXCEPT ![a].pc = "done", ![a].status = status]

\* The request arrives: cookie and stage name are checked, the session query
\* is issued.
ApproveRequest(a, sessionId, stage) ==
  /\ api[a].pc = "new"
  /\ LET q == [api[a] EXCEPT !.kind = "approve", !.sid = sessionId, !.stage = stage] IN
       api' = [api EXCEPT ![a] =
                 IF sessionId = 0 THEN [q EXCEPT !.pc = "done", !.status = 401]
                 ELSE IF stage \notin StageSet THEN [q EXCEPT !.pc = "done", !.status = 400]
                 ELSE [q EXCEPT !.pc = "session"]]
  /\ UNCHANGED <<activeChat, counters, now, req, wire, run, docs, chat, faults, sessions, designs, client, limiter, reply, stream>>

\* The session row arrives; on a mismatch 409, otherwise refreshContext (which
\* only logs) and the validator's query.
ApproveSession_noCheck(a) ==
  /\ api[a].kind = "approve" /\ api[a].pc = "session"
  /\ api' = [api EXCEPT ![a].seenStage = sessions[api[a].sid].currentStage,
                        ![a].pc = "validate"]
  /\ UNCHANGED <<activeChat, counters, now, req, wire, run, docs, chat, faults, sessions, designs, client, limiter, reply, stream>>
ApproveSession(a) ==
  /\ api[a].kind = "approve" /\ api[a].pc = "session"
  /\ LET q == [api[a] EXCEPT !.seenStage = sessions[api[a].sid].currentStage] IN
       api' = [api EXCEPT ![a] =
                 IF q.seenStage # q.stage THEN [q EXCEPT !.pc = "done", !.status = 409]
                 ELSE [q EXCEPT !.pc = "validate"]]
  /\ UNCHANGED <<activeChat, counters, now, req, wire, run, docs, chat, faults, sessions, designs, client, limiter, reply, stream>>

\* validateStage resolves; 422 with the validation when it is not ok, else
\* the transaction is opened.
ApproveValidate_ignoresResult(a) ==
  /\ api[a].kind = "approve" /\ api[a].pc = "validate"
  /\ LET q == api[a]
         validation == validateStage(docs[q.sid], designs[q.sid], q.stage)
         read == IF stageDocMap(q.stage) # "" THEN docs[q.sid][stageDocMap(q.stage)].content ELSE <<>>
     IN api' = [api EXCEPT ![a] = [q EXCEPT !.validation = validation, !.validated = read,
                                            !.pc = "transaction"]]
  /\ UNCHANGED <<activeChat, counters, now, req, wire, run, docs, chat, faults, sessions, designs, client, limiter, reply, stream>>
ApproveValidate(a) ==
  /\ api[a].kind = "approve" /\ api[a].pc = "validate"
  /\ LET q == api[a]
         validation == validateStage(docs[q.sid], designs[q.sid], q.stage)
         read == IF stageDocMap(q.stage) # "" THEN docs[q.sid][stageDocMap(q.stage)].content ELSE <<>>
     IN api' = [api EXCEPT ![a] =
                  IF ~validation.ok
                    THEN [q EXCEPT !.validation = validation, !.validated = read,
                                   !.pc = "done", !.status = 422]
                    ELSE [q EXCEPT !.validation = validation, !.validated = read,
                                   !.pc = "transaction"]]
  /\ UNCHANGED <<activeChat, counters, now, req, wire, run, docs, chat, faults, sessions, designs, client, limiter, reply, stream>>

\* The transaction commits (ok) or rolls back and the handler throws.
ApproveCommit(a, committed) ==
  /\ api[a].kind = "approve" /\ api[a].pc = "transaction"
  /\ committed \/ faults < MaxFaults
  /\ faults' = IF committed THEN faults ELSE faults + 1
  /\ LET q == api[a]
         after == approveTransaction([docs |-> docs, sessions |-> sessions], q.sid, q.stage)
     IN IF committed
          THEN /\ docs' = after.docs
               /\ sessions' = after.sessions
               /\ api' = [api EXCEPT ![a] =
                            [q EXCEPT !.pc = "done", !.status = 200, !.writes = @ + 1,
                                      !.flippedWith =
                                         IF stageDocMap(q.stage) # ""
                                           THEN docs[q.sid][stageDocMap(q.stage)].content ELSE <<>>]]
          ELSE /\ UNCHANGED <<docs, sessions>>
               /\ api' = Reply(a, 500)
  /\ UNCHANGED <<activeChat, counters, now, req, wire, run, chat, designs, client, limiter, reply, stream>>

(***************************************************************************)
(* PUT /api/docs/:name                                                     *)
(***************************************************************************)
PutNames == docNames \cup {"unknown.md"}
PutBodies == {<<>>, <<"text">>, <<"heading">>}

\* The request arrives and the document query is issued.
PutDocRequest(a, sessionId, name, content) ==
  /\ api[a].pc = "new"
  /\ LET q == [api[a] EXCEPT !.kind = "put", !.sid = sessionId, !.name = name,
                             !.content = content] IN
       api' = [api EXCEPT ![a] =
                 IF sessionId = 0 THEN [q EXCEPT !.pc = "done", !.status = 401]
                 ELSE [q EXCEPT !.pc = "doc"]]
  /\ UNCHANGED <<activeChat, counters, now, req, wire, run, docs, chat, faults, sessions, designs, client, limiter, reply, stream>>

\* The document row arrives: 404, 409 when approved, else the update is issued.
PutDocLoaded_noApprovedCheck(a) ==
  /\ api[a].kind = "put" /\ api[a].pc = "doc"
  /\ api' = IF api[a].name \notin docNames THEN Reply(a, 404)
            ELSE [api EXCEPT ![a].pc = "update"]
  /\ UNCHANGED <<activeChat, counters, now, req, wire, run, docs, chat, faults, sessions, designs, client, limiter, reply, stream>>
PutDocLoaded(a) ==
  /\ api[a].kind = "put" /\ api[a].pc = "doc"
  /\ api' = IF api[a].name \notin docNames THEN Reply(a, 404)
            ELSE IF docs[api[a].sid][api[a].name].approved THEN Reply(a, 409)
            ELSE [api EXCEPT ![a].pc = "update"]
  /\ UNCHANGED <<activeChat, counters, now, req, wire, run, docs, chat, faults, sessions, designs, client, limiter, reply, stream>>

\* The update resolves; orchestrator.reingest only logs; 200.
PutDocUpdate(a) ==
  /\ api[a].kind = "put" /\ api[a].pc = "update"
  /\ docs' = [docs EXCEPT ![api[a].sid][api[a].name].content = api[a].content]
  /\ api' = [api EXCEPT ![a].pc = "done", ![a].status = 200, ![a].writes = @ + 1,
                        ![a].reingested = api[a].name]
  /\ UNCHANGED <<activeChat, counters, now, req, wire, run, chat, faults, sessions, designs, client, limiter, reply, stream>>

\* The reply has gone out and the handler has returned; a later request
\* takes the place of this one.
ApiReturned(a) ==
  /\ api[a].pc = "done"
  /\ api' = [api EXCEPT ![a] = IdleApi]
  /\ UNCHANGED <<activeChat, counters, now, req, wire, run, docs, chat, faults, sessions, designs, client, limiter, reply, stream>>

\* Sessions as the approval tests arrange them: created by /api/session/init,
\* then moved to a stage, with or without an uploaded design, the documents
\* empty or filled with the required sections.
ReadyDocs == [d \in docNames |-> [content |-> <<"heading", "dod", "agent">>, approved |-> FALSE]]

InitApprove ==
  /\ activeChat = {}
  /\ counters = [k \in Sessions \X {"chat:minute", "chat:hour"} |-> [count |-> 0, resetAt |-> 0]]
  /\ now = 0
  /\ req = [r \in Requests |-> IdleReq]
  /\ wire = [r \in Requests |-> <<>>]
  /\ run = [r \in Requests |-> IdleRun]
  /\ \E d \in {EmptyDocs, ReadyDocs} : docs = [s \in Sessions |-> d]
  /\ chat = [s \in Sessions |-> <<>>]
  /\ faults = 0
  /\ \E stage \in StageSet :
       sessions = [s \in Sessions |-> [NewSession EXCEPT !.currentStage = stage]]
  /\ \E g \in 0..1 : designs = [s \in Sessions |-> g]
  /\ api = [a \in ApiRequests |-> IdleApi]
  /\ client = IdleClient
  /\ limiter = NoCalls
  /\ reply = NoReply
  /\ stream = NoStream

NextApprove ==
  \E a \in ApiRequests :
    \/ \E sid \in Sessions \cup {0}, stage \in ApproveStageInputs : ApproveRequest(a, sid, stage)
    \/ ApproveSession(a)
    \/ ApproveValidate(a)
    \/ \E committed \in BOOLEAN : ApproveCommit(a, committed)
    \/ \E sid \in Sessions \cup {0}, name \in PutNames, content \in PutBodies :
         PutDocRequest(a, sid, name, content)
    \/ PutDocLoaded(a)
    \/ PutDocUpdate(a)

SpecApprove == InitApprove /\ [][NextApprove]_vars

\* Approval requests alone, any number of them one after another.
NextStages ==
  \E a \in ApiRequests :
    \/ \E sid \in Sessions, stage \in StageSet : ApproveRequest(a, sid, stage)
    \/ ApproveSession(a)
    \/ ApproveValidate(a)
    \/ \E committed \in BOOLEAN : ApproveCommit(a, committed)
    \/ ApiReturned(a)

SpecStages == InitApprove /\ [][NextStages]_vars

\* Sessions as POST /api/session/init creates them, with documents as the
\* client has saved them; then approval requests.
InitSession ==
  /\ activeChat = {}
  /\ counters = [k \in Sessions \X {"chat:minute", "chat:hour"} |-> [count |-> 0, resetAt |-> 0]]
  /\ now = 0
  /\ req = [r \in Requests |-> IdleReq]
  /\ wire = [r \in Requests |-> <<>>]
  /\ run = [r \in Requests |-> IdleRun]
  /\ docs \in [Sessions -> {EmptyDocs, ReadyDocs}]
  /\ chat = [s \in Sessions |-> <<>>]
  /\ faults = 0
  /\ sessions = [s \in Sessions |-> NewSession]
  /\ designs \in [Sessions -> 0..1]
  /\ api = [a \in ApiRequests |-> IdleApi]
  /\ client = IdleClient
  /\ limiter = NoCalls
  /\ reply = NoReply
  /\ stream = NoStream

SpecSession == InitSession /\ [][NextStages]_vars

(***************************************************************************)
(* The limiter called directly: check at chosen times, and the chat lock.  *)
(***************************************************************************)
TickMs == 500

\* The (bucket, limit, windowMs) a caller passes; one limit per bucket.
CheckInputs ==
  {[bucket |-> "chat:minute", limit |-> 1, windowMs |-> 1000],
   [bucket |-> "chat:hour", limit |-> 2, windowMs |-> 2000]}

\* rateLimiter.check(sid, bucket, limit, windowMs)
CallCheck(sid, in) ==
  /\ Len(limiter.log) < MaxChecks
  /\ LET result == check(counters, sid, in.bucket, in.limit, in.windowMs, now)
         key == <<sid, in.bucket>>
     IN /\ counters' = result.counters
        /\ limiter' = [limiter EXCEPT !.log = Append(@,
              [sid |-> sid, bucket |-> in.bucket, limit |-> in.limit, windowMs |-> in.windowMs,
               t |-> now, ok |-> result.ok, retryAfterSec |-> result.retryAfterSec,
               before |-> counters[key], after |-> result.counters[key],
               others |-> \A k \in DOMAIN counters : k # key => result.counters[k] = counters[k]])]
  /\ UNCHANGED <<activeChat, now, req, wire, run, docs, chat, faults, sessions, designs, api, client, reply, stream>>

\* Date.now() advances.
Tick ==
  /\ now < MaxTicks * TickMs
  /\ now' = now + TickMs
  /\ UNCHANGED <<activeChat, counters, req, wire, run, docs, chat, faults, sessions, designs, api, client, limiter, reply, stream>>

\* rateLimiter.acquireChat(sid)
CallAcquireChat(sid) ==
  /\ Len(limiter.ops) < MaxOps
  /\ LET result == acquireChat(activeChat, sid) IN
       /\ activeChat' = result.activeChat
       /\ limiter' = [limiter EXCEPT !.ops = Append(@,
             [op |-> "acquire", sid |-> sid, ok |-> result.ok, before |-> activeChat,
              after |-> result.activeChat])]
  /\ UNCHANGED <<counters, now, req, wire, run, docs, chat, faults, sessions, designs, api, client, reply, stream>>

\* rateLimiter.releaseChat(sid)
CallReleaseChat(sid) ==
  /\ Len(limiter.ops) < MaxOps
  /\ activeChat' = releaseChat(activeChat, sid)
  /\ limiter' = [limiter EXCEPT !.ops = Append(@,
        [op |-> "release", sid |-> sid, ok |-> TRUE, before |-> activeChat,
         after |-> releaseChat(activeChat, sid)])]
  /\ UNCHANGED <<counters, now, req, wire, run, docs, chat, faults, sessions, designs, api, client, reply, stream>>

\* new InMemoryRateLimiter()
InitLimiter ==
  /\ activeChat = {}
  /\ counters = [k \in Sessions \X Buckets |-> NoCounter]
  /\ now = 0
  /\ req = [r \in Requests |-> IdleReq]
  /\ wire = [r \in Requests |-> <<>>]
  /\ run = [r \in Requests |-> IdleRun]
  /\ docs = [s \in Sessions |-> EmptyDocs]
  /\ chat = [s \in Sessions |-> <<>>]
  /\ faults = 0
  /\ sessions = [s \in Sessions |-> NewSession]
  /\ designs = [s \in Sessions |-> 0]
  /\ api = [a \in ApiRequests |-> IdleApi]
  /\ client = IdleClient
  /\ limiter = NoCalls
  /\ reply = NoReply
  /\ stream = NoStream

NextRate ==
  \/ \E sid \in Sessions, in \in CheckInputs : CallCheck(sid, in)
  \/ Tick

SpecRate == InitLimiter /\ [][NextRate]_vars

NextLock ==
  \E sid \in Sessions :
    \/ CallAcquireChat(sid)
    \/ CallReleaseChat(sid)

SpecLock == InitLimiter /\ [][NextLock]_vars

(***************************************************************************)
(* routes/api/chat.ts formatEvent and lib/stream.ts runStream,             *)
(* processBuffer, parseSSEPayload, handleEvent.  A string is a sequence of *)
(* characters; "event:", "data:", ":keepalive" and the event names are     *)
(* kept as one element each.                                               *)
(***************************************************************************)
TextChars == {"x", " ", "\n"}
Whitespace == {" ", "\n"}
Texts == SeqsUpTo(TextChars, MaxText)
StreamEvents == {"assistant.delta", "stage.ready"}

\* String.prototype.indexOf for a one-character needle, from position from;
\* 0 when absent.
indexOfChar(s, ch, from) ==
  IF \E i \in from..Len(s) : s[i] = ch
    THEN CHOOSE i \in from..Len(s) : s[i] = ch /\ \A j \in from..(i - 1) : s[j] # ch
    ELSE 0

\* payload.split(/\r?\n/)
RECURSIVE split(_)
split(payload) ==
  LET i == indexOfChar(payload, "\n", 1) IN
    IF i = 0 THEN <<payload>>
    ELSE <<SubSeq(payload, 1, i - 1)>> \o split(SubSeq(payload, i + 1, Len(payload)))

\* lines.join("\n")
RECURSIVE join(_)
join(lines) ==
  IF lines = <<>> THEN <<>>
  ELSE IF Len(lines) = 1 THEN lines[1]
  ELSE lines[1] \o <<"\n">> \o join(Tail(lines))

\* `event: ${event}\n${dataLines.join("\n")}\n\n`
formatEvent(event, data) ==
  LET lines == split(data)
      dataLines == [i \in 1..Len(lines) |-> <<"data:", " ">> \o lines[i]]
  IN <<"event:", " ", event, "\n">> \o join(dataLines) \o <<"\n", "\n">>

\* The first position at or after from that does not hold white space (\s*).
skipWhitespace(s, from) ==
  IF \E i \in from..Len(s) : s[i] \notin Whitespace
    THEN CHOOSE i \in from..Len(s) : s[i] \notin Whitespace /\ \A j \in from..(i - 1) : s[j] \in Whitespace
    ELSE Len(s) + 1

\* The position after the last character of the line that holds position
\* from ((.*)$ under the m flag).
endOfLine(s, from) ==
  LET i == indexOfChar(s, "\n", from) IN IF i = 0 THEN Len(s) + 1 ELSE i

\* The first start of a line at or after from where keyword stands (^ under
\* the m flag); 0 when there is none.
lineWith(s, keyword, from) ==
  LET at == {i \in from..Len(s) : s[i] = keyword /\ (i = 1 \/ s[i - 1] = "\n")}
  IN IF at = {} THEN 0 ELSE CHOOSE i \in at : \A j \in at : i <= j

\* [...payload.matchAll(/^data:\s*(.*)$/gm)].map((match) => match[1])
RECURSIVE dataMatches(_, _)
dataMatches(payload, from) ==
  LET i == lineWith(payload, "data:", from) IN
    IF i = 0 THEN <<>>
    ELSE LET k == skipWhitespace(payload, i + 1)
             e == endOfLine(payload, k)
         IN <<SubSeq(payload, k, e - 1)>> \o dataMatches(payload, e)

\* String.prototype.trim
RECURSIVE trim(_)
trim(s) ==
  IF s = <<>> THEN s
  ELSE IF Head(s) \in Whitespace THEN trim(Tail(s))
  ELSE IF s[Len(s)] \in Whitespace THEN trim(SubSeq(s, 1, Len(s) - 1))
  ELSE s

Undefined == [eventName |-> <<>>, data |-> <<>>, defined |-> FALSE]

parseSSEPayload(payload) ==
  LET i == lineWith(payload, "event:", 1)
      matches == dataMatches(payload, 1)
  IN IF i = 0 \/ matches = <<>> THEN Undefined
     ELSE LET k == skipWhitespace(payload, i + 1) IN
            [eventName |-> trim(SubSeq(payload, k, endOfLine(payload, k) - 1)),
             data |-> join(matches), defined |-> TRUE]

\* The handler calls handleEvent makes for one raw frame.
handleEvent(payload) ==
  LET parsed == parseSSEPayload(payload) IN
    IF ~parsed.defined THEN <<>>
    ELSE IF parsed.eventName = <<"assistant.delta">>
      THEN <<[eventName |-> "assistant.delta", data |-> parsed.data]>>
    ELSE IF parsed.eventName = <<"stage.ready">>
      THEN <<[eventName |-> "stage.ready", data |-> trim(parsed.data)]>>
    ELSE <<>>

\* remainder.indexOf("\n\n"); 0 when absent
indexOfBlankLine(s) ==
  IF \E i \in 1..(Len(s) - 1) : s[i] = "\n" /\ s[i + 1] = "\n"
    THEN CHOOSE i \in 1..(Len(s) - 1) :
           /\ s[i] = "\n" /\ s[i + 1] = "\n"
           /\ \A j \in 1..(i - 1) : ~(s[j] = "\n" /\ s[j + 1] = "\n")
    ELSE 0

\* processBuffer: the handler calls made and the remainder returned.
RECURSIVE processBuffer(_)
processBuffer(buffer) ==
  LET idx == indexOfBlankLine(buffer) IN
    IF idx = 0 THEN [remainder |-> buffer, calls |-> <<>>]
    ELSE LET rest == processBuffer(SubSeq(buffer, idx + 2, Len(buffer)))
         IN [remainder |-> rest.remainder,
             calls |-> handleEvent(SubSeq(buffer, 1, idx - 1)) \o rest.calls]

\* reply.raw.write(formatEvent(event, text))
ServerWrite(event, text) ==
  /\ ~client.ended /\ Len(client.sent) < MaxFrames
  /\ client' = [client EXCEPT !.written = @ \o formatEvent(event, text),
                              !.inflight = @ \o formatEvent(event, text),
                              !.sent = Append(@, [eventName |-> event, data |-> text])]
  /\ UNCHANGED <<activeChat, counters, now, req, wire, run, docs, chat, faults, sessions, designs, api, limiter, reply, stream>>

\* reply.raw.write(":keepalive\n\n"), once per stream here
ServerKeepalive ==
  /\ ~client.ended
  /\ \A i \in 1..Len(client.written) : client.written[i] # ":keepalive"
  /\ client' = [client EXCEPT !.written = @ \o <<":keepalive", "\n", "\n">>,
                              !.inflight = @ \o <<":keepalive", "\n", "\n">>]
  /\ UNCHANGED <<activeChat, counters, now, req, wire, run, docs, chat, faults, sessions, designs, api, limiter, reply, stream>>

\* reply.raw.end()
ServerEnd ==
  /\ ~client.ended
  /\ client' = [client EXCEPT !.ended = TRUE]
  /\ UNCHANGED <<activeChat, counters, now, req, wire, run, docs, chat, faults, sessions, designs, api, limiter, reply, stream>>

\* reader.read() resolves with the next n characters: the buffer grows by
\* them and processBuffer keeps what follows the last complete frame.
ClientRead_dropsRemainder(n) ==
  /\ ~client.done /\ n \in 1..Len(client.inflight)
  /\ LET chunk == SubSeq(client.inflight, 1, n)
         processed == processBuffer(chunk)
     IN client' = [client EXCEPT !.inflight = SubSeq(@, n + 1, Len(@)),
                                 !.buffer = processed.remainder,
                                 !.dispatched = @ \o processed.calls,
                                 !.reads = IF @ < 2 THEN @ + 1 ELSE @]
  /\ UNCHANGED <<activeChat, counters, now, req, wire, run, docs, chat, faults, sessions, designs, api, limiter, reply, stream>>
ClientRead(n) ==
  /\ ~client.done /\ n \in 1..Len(client.inflight)
  /\ LET chunk == SubSeq(client.inflight, 1, n)
         processed == processBuffer(client.buffer \o chunk)
     IN client' = [client EXCEPT !.inflight = SubSeq(@, n + 1, Len(@)),
                                 !.buffer = processed.remainder,
                                 !.dispatched = @ \o processed.calls,
                                 !.reads = IF @ < 2 THEN @ + 1 ELSE @]
  /\ UNCHANGED <<activeChat, counters, now, req, wire, run, docs, chat, faults, sessions, designs, api, limiter, reply, stream>>

\* reader.read() resolves with done: the loop ends.
ClientDone ==
  /\ ~client.done /\ client.ended /\ client.inflight = <<>>
  /\ client' = [client EXCEPT !.done = TRUE]
  /\ UNCHANGED <<activeChat, counters, now, req, wire, run, docs, chat, faults, sessions, designs, api, limiter, reply, stream>>

InitClient ==
  /\ activeChat = {}
  /\ counters = [k \in Sessions \X {"chat:minute", "chat:hour"} |-> [count |-> 0, resetAt |-> 0]]
  /\ now = 0
  /\ req = [r \in Requests |-> IdleReq]
  /\ wire = [r \in Requests |-> <<>>]
  /\ run = [r \in Requests |-> IdleRun]
  /\ docs = [s \in Sessions |-> EmptyDocs]
  /\ chat = [s \in Sessions |-> <<>>]
  /\ faults = 0
  /\ sessions = [s \in Sessions |-> NewSession]
  /\ designs = [s \in Sessions |-> 0]
  /\ api = [a \in ApiRequests |-> IdleApi]
  /\ client = IdleClient
  /\ limiter = NoCalls
  /\ reply = NoReply
  /\ stream = NoStream

NextClient ==
  \/ \E event \in StreamEvents, text \in Texts : ServerWrite(event, text)
  \/ ServerKeepalive
  \/ ServerEnd
  \/ \E n \in 1..Len(client.inflight) : ClientRead(n)
  \/ ClientDone

SpecClient == InitClient /\ [][NextClient]_vars

(***************************************************************************)
(* routes/api/chat.ts : streaming of the assistant reply.  A text is a     *)
(* sequence of characters; the ready flag's text is kept as one element.   *)
(***************************************************************************)
ReplyChars == {"x", " ", "\n", "F"}
ReadyFlagText == <<"F">>

\* stripReadyFlag(text, flag); flag <<>> stands for undefined.
stripReadyFlag(text, flag) ==
  IF flag = <<>> THEN text
  ELSE LET lines == SelectSeq(split(text), LAMBDA line : trim(line) # flag) IN
    IF lines = <<>> THEN <<>> ELSE join(lines)

\* const outbound = stripReadyFlag(segment, stageReadyFlag)
outbound(segment, flag) == stripReadyFlag(segment, flag)

\* The texts written for the segments, in order: `if (outbound) write(...)`.
RECURSIVE streamSegments(_, _)
streamSegments(segments, flag) ==
  IF segments = <<>> THEN <<>>
  ELSE LET out == outbound(Head(segments), flag) IN
    (IF out # <<>> THEN <<out>> ELSE <<>>) \o streamSegments(Tail(segments), flag)

\* generateResponse's output gains a content item (text is non-empty).
ModelStartsSegment(c) ==
  /\ ~reply.streamed
  /\ Len(reply.segments) < MaxSegments
  /\ reply' = [reply EXCEPT !.segments = Append(@, <<c>>)]
  /\ UNCHANGED <<activeChat, counters, now, req, wire, run, docs, chat, faults, sessions, designs, api, client, limiter, stream>>

\* The text of the latest content item grows by one character.
ModelAppends(c) ==
  /\ ~reply.streamed
  /\ reply.segments # <<>>
  /\ Len(Last(reply.segments)) < MaxSegmentLen
  /\ reply' = [reply EXCEPT !.segments[Len(reply.segments)] = Append(@, c)]
  /\ UNCHANGED <<activeChat, counters, now, req, wire, run, docs, chat, faults, sessions, designs, api, client, limiter, stream>>

\* generateResponse resolved in an interactive stage: the loop over the
\* segments of the output, the stream being open.
StreamReply ==
  /\ ~reply.streamed
  /\ reply' = [reply EXCEPT !.streamed = TRUE,
                            !.deltas = streamSegments(reply.segments, ReadyFlagText)]
  /\ UNCHANGED <<activeChat, counters, now, req, wire, run, docs, chat, faults, sessions, designs, api, client, limiter, stream>>

NextReply ==
  \/ \E c \in ReplyChars : ModelStartsSegment(c)
  \/ \E c \in ReplyChars : ModelAppends(c)
  \/ StreamReply

SpecReply == InitLimiter /\ [][NextReply]_vars

(***************************************************************************)
(* lib/stream : streamChat, the retry loop around runStream                *)
(***************************************************************************)
DEFAULT_MAX_RETRIES == 3
BASE_DELAY_MS == 500

\* options.maxRetries, the default included.
RetryLimits == (-1..MaxRetries) \cup {DEFAULT_MAX_RETRIES}

\* handlers.onComplete: absent, returning, or throwing.
CompleteHandlers == {"none", "returns", "throws"}

\* How runStream can reject: a response that is not ok carries its status,
\* every other failure (network, abort, a handler that throws) carries none.
RejectStatuses == {"none", "429", "500"}

Min(a, b) == IF a <= b THEN a ELSE b

\* while (attempt <= maxRetries) { try { await runStream(...)
enterLoop(st) ==
  IF st.attempt <= st.maxRetries
    THEN [st EXCEPT !.pc = "runStream", !.attempts = @ + 1,
                    !.live = ~(st.hasSignal /\ st.aborted)]
    ELSE [st EXCEPT !.pc = "returned"]

\* The catch block of streamChat, up to the await of wait.
streamCatch(st, status) ==
  IF st.hasSignal /\ st.aborted THEN [st EXCEPT !.pc = "threw"]
  ELSE IF status = "429" THEN [st EXCEPT !.errors = @ + 1, !.pc = "threw"]
  ELSE IF st.attempt = st.maxRetries THEN [st EXCEPT !.errors = @ + 1, !.pc = "threw"]
  ELSE LET delay == Min(BASE_DELAY_MS * 2 ^ st.attempt, 5000)
       IN [st EXCEPT !.reconnects = Append(@, [attempt |-> st.attempt + 1, delay |-> delay]),
                     !.delay = delay, !.pc = "wait"]

CallStreamChat ==
  /\ stream.pc = "idle"
  /\ \E maxRetries \in RetryLimits, hasSignal \in BOOLEAN, aborted \in BOOLEAN,
        onComplete \in CompleteHandlers :
       /\ aborted => hasSignal
       /\ stream' = enterLoop([stream EXCEPT !.maxRetries = maxRetries,
                                             !.hasSignal = hasSignal,
                                             !.aborted = aborted,
                                             !.onComplete = onComplete])
  /\ UNCHANGED <<activeChat, counters, now, req, wire, run, docs, chat, faults, sessions, designs, api, client, limiter, reply>>

\* runStream resolved: handlers?.onComplete?.(); return. The call of the
\* handler is inside the try block.
RunStreamResolves ==
  /\ stream.pc = "runStream"
  /\ stream.live
  /\ LET ended == [stream EXCEPT !.outcomes = Append(@, "ok")]
         called == [ended EXCEPT !.completes = @ + 1]
     IN stream' = CASE stream.onComplete = "none" -> [ended EXCEPT !.pc = "returned"]
                    [] stream.onComplete = "returns" -> [called EXCEPT !.pc = "returned"]
                    [] stream.onComplete = "throws" -> streamCatch(called, "none")
  /\ UNCHANGED <<activeChat, counters, now, req, wire, run, docs, chat, faults, sessions, designs, api, client, limiter, reply>>

\* runStream rejected. With a signal that was aborted before the call, fetch
\* rejects without a response.
RunStreamRejects(status) ==
  /\ stream.pc = "runStream"
  /\ ~stream.live => status = "none"
  /\ stream' = streamCatch([stream EXCEPT !.outcomes = Append(@, status)], status)
  /\ UNCHANGED <<activeChat, counters, now, req, wire, run, docs, chat, faults, sessions, designs, api, client, limiter, reply>>

\* The caller aborts its signal. During wait, onAbort rejects the promise
\* and the exception leaves streamChat from inside the catch block.
AbortSignal ==
  /\ stream.pc \in {"runStream", "wait"}
  /\ stream.hasSignal /\ ~stream.aborted
  /\ stream' = [stream EXCEPT !.aborted = TRUE,
                              !.pc = IF stream.pc = "wait" THEN "threw" ELSE @]
  /\ UNCHANGED <<activeChat, counters, now, req, wire, run, docs, chat, faults, sessions, designs, api, client, limiter, reply>>

\* The timer of wait fires: attempt += 1 and the loop condition again.
WaitElapses ==
  /\ stream.pc = "wait"
  /\ stream' = enterLoop([stream EXCEPT !.attempt = @ + 1])
  /\ UNCHANGED <<activeChat, counters, now, req, wire, run, docs, chat, faults, sessions, designs, api, client, limiter, reply>>

NextStream ==
  \/ CallStreamChat
  \/ RunStreamResolves
  \/ \E status \in RejectStatuses : RunStreamRejects(status)
  \/ AbortSignal
  \/ WaitElapses

SpecStream == InitLimiter /\ [][NextStream]_vars

(***************************************************************************)
(* Properties of the single-flight lock of /api/chat.                      *)
(***************************************************************************)
Holders(sid) == {r \in Requests : req[r].sid = sid /\ req[r].holds}

\* The step in which request r arrives (the onRequest hook runs).
Arrives(r) == req[r].pc = "new" /\ req'[r].pc # "new"

\* C1: for every session at most one /api/chat request holds the
\* single-flight lock, and a holder's session is in the lock set; a request
\* that arrives while the lock of its session is held is answered at once
\* with 429 CHAT_STREAM_ACTIVE and changes nothing, a request that arrives
\* while it is free takes it whatever the locks of the other sessions are,
\* and an arrival never changes the lock of another session.
C1_SingleFlight ==
  /\ [](\A sid \in Sessions :
          /\ Cardinality(Holders(sid)) <= 1
          /\ Holders(sid) # {} => sid \in activeChat)
  /\ [][\A r \in Requests :
          Arrives(r) =>
            LET sid == req'[r].sid IN
              /\ sid \in activeChat =>
                    /\ req'[r].pc = "done" /\ req'[r].outcome = "CHAT_STREAM_ACTIVE"
                    /\ ~req'[r].holds /\ activeChat' = activeChat
              /\ sid \notin activeChat =>
                    /\ req'[r].pc = "handler" /\ req'[r].holds
                    /\ activeChat' = activeChat \cup {sid}
              /\ activeChat' \ {sid} = activeChat \ {sid}]_vars

\* A request was turned away while another request of its session streams,
\* with the lock of another session free.
C1_Witness ==
  \E r, q \in Requests :
    /\ req[r].outcome = "CHAT_STREAM_ACTIVE" /\ req[q].holds /\ req[q].sid = req[r].sid
    /\ Streaming(q)
    /\ \E other \in Sessions : other # req[r].sid /\ other \notin activeChat

\* C2: every request that took the single-flight lock has released it by the
\* time its handler is over, whatever the exit path.
C2_LockReleasedOnExit ==
  \A r \in Requests :
    req[r].pc = "done" /\ req[r].chatLockAcquired => ~req[r].holds

\* C3: the step in which a request is rejected by the minute or the hour
\* window (429 RATE_LIMIT_EXCEEDED) leaves the lock of its session free.
C3_RateRejectionLeavesLockFree ==
  [][\A r \in Requests :
       req[r].pc = "handler" /\ req'[r].outcome = "RATE_LIMIT_EXCEEDED" =>
         req[r].sid \notin activeChat']_vars

\* C4: no two stage runs of the same session are in flight at the same time.
C4_OneWriterPerSession ==
  \A r, q \in Requests :
    r # q /\ RunInFlight(r) /\ RunInFlight(q) => run[r].sessionId # run[q].sessionId

\* C5: the step in which a client abort is observed leaves the lock of the
\* session free, and the next request that arrives for the session while the
\* aborted request is still winding down takes the lock and passes the hook.
C5_AbortFreesLock ==
  [][\A r \in Requests :
       /\ ~req[r].aborted /\ req'[r].aborted => req[r].sid \notin activeChat'
       /\ \A q \in Requests :
            /\ req[r].aborted /\ Arrives(q) /\ req'[q].sid = req[r].sid
            /\ Holders(req[r].sid) = {}
            => req'[q].pc = "handler" /\ req'[q].holds /\ req[r].sid \in activeChat']_vars

\* A request was aborted while its stage run was in flight, and the next
\* request of the session holds the lock.
C5_Witness ==
  \E r, q \in Requests :
    /\ r < q /\ req[r].aborted /\ RunInFlight(r)
    /\ req[q].sid = req[r].sid /\ req[q].holds /\ req[q].pc = "handler"

\* C6: once the abort of a request has been observed, no frame is written to
\* its stream any more and its stage run persists no document.
C6_NothingAfterAbort ==
  [][\A r \in Requests :
       req[r].aborted /\ req'[r].pc # "done" =>
         /\ wire'[r] = wire[r]
         /\ run'[r].wrote = run[r].wrote]_vars

\* C11: on the stream of every /api/chat request at most one terminal frame
\* (stage.ready or stage.needs_more) is written, and no assistant.delta or
\* doc.updated frame follows it.
C11_WireOrdering ==
  \A r \in Requests :
    LET terminals == {i \in 1..Len(wire[r]) : wire[r][i].event \in TerminalKinds} IN
      /\ Cardinality(terminals) <= 1
      /\ \A i \in terminals : \A j \in (i + 1)..Len(wire[r]) :
            wire[r][j].event \notin {"assistant.delta", "doc.updated"}

(***************************************************************************)
(* Properties of the stage budget and of the event log of a stage run.     *)
(***************************************************************************)
\* C7: StageBudget.consume raises BudgetExceededError and leaves the counter
\* unchanged when the counter is at or above the limit, and otherwise adds
\* exactly one; generation and validation calls work on the same counter
\* (every call starts from the value the previous call of either kind left).
C7_ConsumeContract ==
  \A r \in Requests :
    LET rr == run[r] IN
      \A i \in 1..Len(rr.calls) :
        LET c == rr.calls[i] IN
          /\ c.before >= rr.limit => c.raised /\ c.after = c.before
          /\ c.before < rr.limit => ~c.raised /\ c.after = c.before + 1
          /\ c.before = (IF i = 1 THEN 0 ELSE rr.calls[i - 1].after)
          /\ i = Len(rr.calls) => totalCalls(rr) = c.after

C7_Witness ==
  \E r \in Requests :
    \E i, j, k \in 1..Len(run[r].calls) :
      /\ run[r].calls[i].kind = "generation" /\ ~run[r].calls[i].raised
      /\ run[r].calls[j].kind = "validation" /\ ~run[r].calls[j].raised
      /\ run[r].calls[k].raised

\* C8: in every stage run, whatever the driver and its consume calls, the
\* number of calls consumed (totalCalls, returned as llmCalls) never exceeds
\* the budget limit of the run.
C8_CallsWithinLimit ==
  \A r \in Requests : run[r].pc # "idle" => totalCalls(run[r]) <= run[r].limit

C8_Witness ==
  \E r \in Requests :
    /\ run[r].pc = "returned" /\ run[r].driver = "custom"
    /\ run[r].limit > 0 /\ totalCalls(run[r]) = run[r].limit
    /\ \E i \in 1..Len(run[r].calls) : run[r].calls[i].raised

BudgetWasExceeded(rr) == \E i \in 1..Len(rr.calls) : rr.calls[i].raised
IsBudgetNeedsMore(ev) == ev.event = "stage.needs_more" /\ ev.reason = "BUDGET_EXCEEDED"
IsNeedsMore(ev) == ev.event = "stage.needs_more"
IsTerminal(ev) == ev.event \in TerminalKinds

\* C9: a stage run that attempted a call beyond its budget returns status
\* needs_more, and its event log holds exactly one stage.needs_more, with
\* reason BUDGET_EXCEEDED, as its last event.
C9_BudgetExceededEndsRun ==
  \A r \in Requests :
    LET rr == run[r] IN
      RunFinished(r) /\ BudgetWasExceeded(rr) =>
        /\ rr.pc = "returned" /\ rr.status = "needs_more"
        /\ Cardinality(Positions(rr.events, IsNeedsMore)) = 1
        /\ Len(rr.events) > 0 /\ IsBudgetNeedsMore(Last(rr.events))

\* C10: the event log of every stage run holds exactly one terminal event
\* (stage.ready or stage.needs_more), and it is the last event of the log.
C10_ExactlyOneTerminal ==
  \A r \in Requests :
    LET rr == run[r] IN
      rr.pc = "returned" =>
        /\ Cardinality(Positions(rr.events, IsTerminal)) = 1
        /\ Len(rr.events) > 0 /\ IsTerminal(Last(rr.events))

IsPrefix(p, q) == Len(p) <= Len(q) /\ \A i \in 1..Len(p) : p[i] = q[i]

\* C12: a stage run calls re-ingest(stage_start), then the driver, then
\* re-ingest(pre_validation), then emits stage.ready, in this order; after a
\* driver that signalled needs_more neither pre_validation nor stage.ready
\* happens, and the state machine emits its own stage.needs_more exactly when
\* the log held none at the driver's return (it is then the first one).
C12_StepOrder ==
  \A r \in Requests :
    LET rr == run[r]
        driverNeedsMore == rr.result = "needs_more" /\ rr.pc \in {"returned", "threw"}
    IN /\ \/ IsPrefix(rr.steps, <<"stage_start", "driver", "pre_validation", "ready">>)
          \/ rr.steps = <<"stage_start", "driver", "node_needs_more">>
       /\ has(rr, "stage.ready") =>
            rr.steps = <<"stage_start", "driver", "pre_validation", "ready">>
       /\ driverNeedsMore =>
            /\ rr.phases = <<"stage_start">>
            /\ ~has(rr, "stage.ready")
            /\ has(rr, "stage.needs_more")
       /\ rr.nodeEmitAt > 0 =>
            /\ driverNeedsMore
            /\ IsNeedsMore(rr.events[rr.nodeEmitAt])
            /\ \A i \in 1..(rr.nodeEmitAt - 1) : ~IsNeedsMore(rr.events[i])
       /\ driverNeedsMore /\ rr.nodeEmitAt = 0 =>
            \E i \in 1..Len(rr.events) :
              IsNeedsMore(rr.events[i]) /\ rr.events[i].reason = rr.reason

\* A driver emitted events, returned needs_more without a stage.needs_more
\* of its own, and the state machine emitted it.
C12_Witness ==
  \E r \in Requests :
    /\ run[r].pc = "returned" /\ run[r].result = "needs_more"
    /\ run[r].nodeEmitAt > 0 /\ Len(run[r].events) > 1

\* C13: no stage run rejects; a finished run in which an exception was raised
\* has status needs_more and its log holds a stage.needs_more whose reason is
\* BUDGET_EXCEEDED when the budget raised the (first) exception and
\* RUNTIME_ERROR otherwise.
C13_ExceptionsBecomeNeedsMore ==
  \A r \in Requests :
    LET rr == run[r] IN
      /\ rr.pc # "threw"
      /\ rr.pc = "returned" /\ rr.caught # <<>> =>
           /\ rr.status = "needs_more"
           /\ \E i \in 1..Len(rr.events) :
                /\ IsNeedsMore(rr.events[i])
                /\ rr.events[i].reason =
                     IF rr.caught[1] = "BudgetExceededError" THEN "BUDGET_EXCEEDED"
                     ELSE "RUNTIME_ERROR"

\* A finished run of the default driver whose writer ran and raised nothing.
WriterRan(rr) ==
  rr.pc = "returned" /\ rr.driver = "default" /\ rr.limit > 0 /\ rr.caught = <<>>

\* C14: a stage run whose required upstream document is empty returns
\* needs_more with the reason that names the document, writes no document
\* and consumes no budget (its call count is still the initial 0).
C14_MissingUpstream ==
  \A r \in Requests :
    LET rr == run[r] IN
      /\ WriterRan(rr) /\ UpstreamDoc(rr.stage) # ""
      /\ ~hasContent(docs[rr.sessionId][UpstreamDoc(rr.stage)].content)
      => /\ rr.status = "needs_more"
         /\ \E i \in 1..Len(rr.events) :
              IsNeedsMore(rr.events[i]) /\ rr.events[i].reason = MissingReason(rr.stage)
         /\ rr.wrote = <<>>
         /\ totalCalls(rr) = 0

\* The writers that build their document from upstream documents alone.
Templated(stage) == UpstreamDoc(stage) # ""

\* C15: a stage run with a templated writer consumes no budget: the call
\* count it reports is the count it started with, 0.
C15_TemplatedConsumesNothing ==
  \A r \in Requests :
    WriterRan(run[r]) /\ Templated(run[r].stage) => totalCalls(run[r]) = 0


ApprovalStep(a, pc) ==
  api[a].kind = "approve" /\ api[a].pc = pc /\ api'[a] # api[a]

\* C17: an approval request whose stage is not the session's current_stage
\* is answered 409 in the step that reads the session, and that step changes
\* no document, no session field and no design.
C17_StageMismatchChangesNothing ==
  [][\A a \in ApiRequests :
       ApprovalStep(a, "session") /\ sessions[api[a].sid].currentStage # api[a].stage
         => /\ api'[a].pc = "done" /\ api'[a].status = 409
            /\ api'[a].writes = 0
            /\ docs' = docs /\ sessions' = sessions /\ designs' = designs]_vars

C17_Witness ==
  \E a \in ApiRequests :
    /\ api[a].kind = "approve" /\ api[a].pc = "done" /\ api[a].status = 409
    /\ api[a].seenStage # api[a].stage
    /\ sessions[api[a].sid].currentStage = api[a].seenStage

\* C18: when the validator returns ok = false the request is answered 422
\* with the validator's result, and that step changes no document, no
\* approved flag and no current_stage.
C18_ValidationFailureChangesNothing ==
  [][\A a \in ApiRequests :
       LET validation == validateStage(docs[api[a].sid], designs[api[a].sid], api[a].stage) IN
         ApprovalStep(a, "validate") /\ ~validation.ok
           => /\ api'[a].pc = "done" /\ api'[a].status = 422
              /\ api'[a].validation = validation /\ validation.reasons # <<>>
              /\ api'[a].writes = 0
              /\ docs' = docs /\ sessions' = sessions]_vars

C18_Witness ==
  \E a \in ApiRequests :
    /\ api[a].kind = "approve" /\ api[a].pc = "done" /\ api[a].status = 422
    /\ ~api[a].validation.ok /\ Len(api[a].validation.reasons) = 2
    /\ ~docs[api[a].sid]["spec.md"].approved

\* C19: an approval that succeeded flipped the document with the content
\* its validator read and accepted.
C19_FlippedWhatWasValidated ==
  \A a \in ApiRequests :
    api[a].kind = "approve" /\ api[a].status = 200 /\ stageDocMap(api[a].stage) # ""
      => /\ api[a].flippedWith = api[a].validated
         /\ validateStage([d \in docNames |-> [content |-> api[a].flippedWith, approved |-> FALSE]],
                          designs[api[a].sid], api[a].stage).ok

\* The stage after S in the fixed order; the last stage has none.
Successor(S) ==
  IF \E i \in 1..(Len(stageNames) - 1) : stageNames[i] = S
    THEN stageNames[(CHOOSE i \in 1..(Len(stageNames) - 1) : stageNames[i] = S) + 1]
    ELSE S

C22_ApprovedContentImmutable ==
  [][\A sid \in Sessions, name \in docNames :
       docs[sid][name].approved => docs'[sid][name].content = docs[sid][name].content]_vars

\* The step in which document request a receives the answer it awaits at pc.
PutStep(a, pc) ==
  api[a].kind = "put" /\ api[a].pc = pc /\ api'[a] # api[a]

\* C23: a PUT whose document row comes back approved is answered 409 and
\* that step changes no document; a PUT whose row comes back unapproved
\* issues the update, and when the update resolves the document holds the
\* request's content, re-ingestion was called for that document, and the
\* answer is 200.
C23_PutRespectsApprovedFlag ==
  [][\A a \in ApiRequests :
       LET q == api[a] IN
         /\ PutStep(a, "doc") /\ q.name \in docNames /\ docs[q.sid][q.name].approved
              => /\ api'[a].pc = "done" /\ api'[a].status = 409
                 /\ api'[a].reingested = ""
                 /\ docs' = docs
         /\ PutStep(a, "doc") /\ q.name \in docNames /\ ~docs[q.sid][q.name].approved
              => api'[a].pc = "update" /\ docs' = docs
         /\ PutStep(a, "update")
              => /\ docs'[q.sid][q.name].content = q.content
                 /\ api'[a].reingested = q.name
                 /\ api'[a].status = 200]_vars

C23_Witness ==
  \E a, b \in ApiRequests :
    /\ api[a].kind = "put" /\ api[a].pc = "done" /\ api[a].status = 409
    /\ api[b].kind = "approve" /\ api[b].status = 200 /\ api[b].sid = api[a].sid
    /\ stageDocMap(api[b].stage) = api[a].name
    /\ docs[api[a].sid][api[a].name].content # api[a].content

\* The rules of a stage that the documents d and the designs count g fail.
FailingRules(d, g, stage) ==
  CASE stage = "intake" ->
         {rule \in {"content", "sections"} :
            \/ rule = "content" /\ ~hasContent(d["idea_one_pager.md"].content)
            \/ rule = "sections" /\ ~hasSection(d["idea_one_pager.md"].content)}
    [] stage = "spec" ->
         {rule \in {"content", "definition of done", "prior docs"} :
            \/ rule = "content" /\ ~hasContent(d["spec.md"].content)
            \/ rule = "definition of done" /\ ~hasDefinitionOfDone(d["spec.md"].content)
            \/ rule = "prior docs" /\ ~hasSection(d["spec.md"].content)}
    [] stage = "design" -> {rule \in {"designs"} : g = 0}
    [] stage = "prompt_plan" -> {rule \in {"content"} : ~hasContent(d["prompt_plan.md"].content)}
    [] stage = "agents" ->
         {rule \in {"content", "agent responsibility"} :
            \/ rule = "content" /\ ~hasContent(d["AGENTS.md"].content)
            \/ rule = "agent responsibility" /\ ~hasAgentResponsibility(d["AGENTS.md"].content)}
    [] stage = "export" -> {rule \in {"content"} : \E name \in docNames : ~hasContent(d[name].content)}
    [] OTHER -> {"validator"}

\* C24: validateStage answers with one reason for each rule of the stage
\* that fails, and ok is true exactly when there is no reason.
C24_AllFailingRulesReported ==
  \A a \in ApiRequests :
    api[a].kind = "validate" =>
      /\ api[a].validation.ok <=> api[a].validation.reasons = <<>>
      /\ Len(api[a].validation.reasons)
           = Cardinality(FailingRules(docs[api[a].sid], designs[api[a].sid], api[a].stage))

(***************************************************************************)
(* Properties of the event stream encoding and of the client's reader.     *)
(***************************************************************************)
\* C25: when the k-th frame the server formatted carries a text of several
\* lines, the k-th handler call of the client carries the same event name
\* and, for assistant.delta, that text unchanged.
C25_TextRoundTrip ==
  \A k \in 1..Len(client.dispatched) :
    (\E i \in 1..Len(client.sent[k].data) : client.sent[k].data[i] = "\n")
      => /\ client.dispatched[k].eventName = client.sent[k].eventName
         /\ client.sent[k].eventName = "assistant.delta"
              => client.dispatched[k].data = client.sent[k].data

\* C26: after every read the handler calls made so far and the buffer kept
\* are those of processBuffer applied once to everything read so far, and
\* the buffer holds no complete frame.
C26_ChunkingInvisible ==
  LET delivered == SubSeq(client.written, 1, Len(client.written) - Len(client.inflight))
      unsplit == processBuffer(delivered)
  IN /\ client.dispatched = unsplit.calls
     /\ client.buffer = unsplit.remainder
     /\ indexOfBlankLine(client.buffer) = 0

C26_Witness ==
  /\ client.done /\ client.reads = 2 /\ Len(client.dispatched) = MaxFrames
  /\ client.buffer = <<>>

(***************************************************************************)
(* Properties of the limiter.                                              *)
(***************************************************************************)
\* The calls of the log made for (sid, bucket), in order.
CallsOf(sid, bucket) ==
  SelectSeq(limiter.log, LAMBDA e : e.sid = sid /\ e.bucket = bucket)

\* The calls follow the window rule: with the window ending at windowEnd
\* (-1: none open) and used calls accepted in it, each call at or after the
\* end is accepted and opens a window, each call inside it is accepted while
\* fewer than limit were, and otherwise refused with a wait of at least one
\* second that reaches the end of the window, the counter left as it was.
RECURSIVE FollowsWindows(_, _, _)
FollowsWindows(calls, windowEnd, used) ==
  IF calls = <<>> THEN TRUE
  ELSE LET e == Head(calls) IN
    IF windowEnd = -1 \/ e.t >= windowEnd
      THEN e.ok /\ FollowsWindows(Tail(calls), e.t + e.windowMs, 1)
    ELSE IF used < e.limit
      THEN e.ok /\ FollowsWindows(Tail(calls), windowEnd, used + 1)
    ELSE /\ ~e.ok /\ e.retryAfterSec >= 1
         /\ e.t + e.retryAfterSec * 1000 >= windowEnd
         /\ e.after = e.before
         /\ FollowsWindows(Tail(calls), windowEnd, used)

\* C27: for every (session, bucket) the calls of check follow the window
\* rule, and no call changes the counter of another session or bucket.
C27_WindowLimit ==
  /\ \A sid \in Sessions, bucket \in Buckets : FollowsWindows(CallsOf(sid, bucket), -1, 0)
  /\ \A i \in 1..Len(limiter.log) : limiter.log[i].others

C27_Witness ==
  \E sid \in Sessions :
    LET calls == CallsOf(sid, "chat:hour") IN
      /\ Len(calls) = 4
      /\ calls[1].ok /\ calls[2].ok /\ ~calls[3].ok /\ calls[4].ok
      /\ calls[3].retryAfterSec = 1
      /\ calls[4].t = calls[1].t + calls[1].windowMs

\* C28: every release leaves the lock set without the session, whether or
\* not it was held; a release that follows a release of the same session
\* leaves the set as it was; an acquire that follows a release of the same
\* session returns true.
C28_ReleaseIdempotent ==
  \A i \in 1..Len(limiter.ops) :
    LET e == limiter.ops[i] IN
      /\ e.op = "release" => e.after = e.before \ {e.sid}
      /\ i > 1 /\ limiter.ops[i - 1].op = "release" /\ limiter.ops[i - 1].sid = e.sid
           => /\ e.op = "release" => e.after = e.before
              /\ e.op = "acquire" => e.ok /\ e.sid \in e.after

C28_Witness ==
  /\ Len(limiter.ops) = 4
  /\ \E sid \in Sessions :
       /\ limiter.ops[1] = [op |-> "acquire", sid |-> sid, ok |-> TRUE, before |-> {}, after |-> {sid}]
       /\ limiter.ops[2].op = "release" /\ limiter.ops[2].sid = sid
       /\ limiter.ops[3].op = "release" /\ limiter.ops[3].sid = sid
       /\ limiter.ops[4].op = "acquire" /\ limiter.ops[4].sid = sid /\ limiter.ops[4].ok

(***************************************************************************)
(* Timeouts of external calls.                                             *)
(***************************************************************************)
\* C29: a request one of whose external generation calls timed out, and
\* whose stream stayed writable to the end, has sent stage.needs_more with
\* reason TIMEOUT and no stage.ready by the time it closes the stream, and
\* closing releases the session's lock.
C29_TimeoutEndsWithNeedsMore ==
  [][\A r \in Requests :
       /\ req[r].pc = "await_orch" /\ req'[r].pc = "done"
       /\ req[r].timedOut \/ run[r].timedOut
       /\ CanWrite(r)
       => /\ \E i \in 1..Len(wire[r]) :
               wire[r][i].event = "stage.needs_more" /\ wire[r][i].reason = "TIMEOUT"
          /\ \A i \in 1..Len(wire[r]) : wire[r][i].event # "stage.ready"
          /\ req[r].sid \notin activeChat']_vars

(***************************************************************************)
(* Readiness signals of an interactive stage.                              *)
(***************************************************************************)
\* The latest user message of the stage is an explicit draft command.
DraftRequested(sid, stage) ==
  LET messages == StageMessages(sid, stage) IN
    messages # <<>> /\ Last(messages).role = "user" /\ isStrongDraftCommand(Last(messages).kind)

\* The latest assistant message of the stage carries the readiness marker.
MarkerEmitted(sid, stage) == assistantRecentlyPrompted(StageMessages(sid, stage))

\* C30: when a chat request of a stage that waits for confirmation has
\* loaded its history, it starts the stage run if the latest user message
\* is a draft command, and also if the assistant's latest reply carried
\* the readiness marker, whatever the user then wrote.
C30_EitherSignalTriggers ==
  [][\A r \in Requests :
       /\ req[r].pc = "history" /\ req'[r].pc = "generating"
       /\ stageRequiresConfirmation(req[r].stage)
       /\ DraftRequested(req[r].sid, req[r].stage) \/ MarkerEmitted(req[r].sid, req[r].stage)
       => req'[r].orch /\ run'[r].pc # "idle"]_vars

\* The step of request r starts a stage run (startOrchestrator is called).
StartsRun(r) ==
  req[r].pc \in {"insert", "history"} /\ req'[r] # req[r] /\ run'[r] # run[r]

\* The latest user message of the stage is an affirmative reply.
Affirmed(sid, stage) ==
  LET messages == StageMessages(sid, stage) IN
    messages # <<>> /\ Last(messages).role = "user" /\ isAffirmative(Last(messages).kind)

C32_NoMarkerInDeltas ==
  \A i \in 1..Len(reply.deltas) :
    \A j \in 1..Len(reply.deltas[i]) : reply.deltas[i][j] # "F"

(***************************************************************************)
(* Failures of the document store during a stage run.                      *)
(***************************************************************************)
\* C33: when a read or a write of the writer on the database rejects, the
\* stage run ends by throwing to its caller: it does not return a status,
\* and the operation is not attempted again.
C33_StoreFailurePropagates ==
  [][\A r \in Requests :
       /\ run[r].pc \in {"writer_read", "writer_write"}
       /\ faults' = faults + 1
       /\ run'[r] # run[r]
       => run'[r].pc = "threw" /\ run'[r].result = "none"]_vars

(***************************************************************************)
(* Writers against validators.                                             *)
(***************************************************************************)
\* The step is the resolved writeDoc of the stage writer of run r.
WriterWrote(r) == run[r].pc = "writer_write" /\ Len(run'[r].wrote) > Len(run[r].wrote)

\* C34: whenever a stage writer has written its document, the stage's
\* validator accepts the session's documents and designs; and the content
\* a templated writer writes is the one built from the documents it read.
C34_WriterOutputValidates ==
  [][\A r \in Requests :
       WriterWrote(r)
         => /\ validateStage(docs'[run[r].sessionId], designs'[run[r].sessionId], run[r].stage).ok
            /\ Templated(run[r].stage)
                 => docs'[run[r].sessionId][TargetDoc(run[r].stage)].content
                      = buildDoc(run[r].stage, docs[run[r].sessionId])]_vars

(***************************************************************************)
(* One stage per invocation.                                               *)
(***************************************************************************)
\* C35: a finished runStage invocation has returned (not thrown) with
\* status ready or needs_more, has called the driver at most once, and its
\* events all belong to the requested stage.
C35_OneStagePerInvocation ==
  \A r \in Requests :
    LET rr == run[r] IN
      /\ Cardinality(Positions(rr.steps, LAMBDA x : x = "driver")) <= 1
      /\ \A i \in 1..Len(rr.events) : rr.events[i].stage = rr.stage
      /\ RunFinished(r) => rr.pc = "returned" /\ rr.status \in {"ready", "needs_more"}

(***************************************************************************)
(* The chat history is append-only and ordered.                            *)
(***************************************************************************)
\* The rows the step appends to the history of session sid.
Appended(sid) == SubSeq(chat'[sid], Len(chat[sid]) + 1, Len(chat'[sid]))

\* C36: every step leaves the stored rows of each session in place and at
\* most appends one; a user row is appended by a request that has written
\* no frame and not yet called the generation; the generation is called
\* and frames are written only once the request's user row is stored; an
\* assistant row is appended only by a request whose generation call has
\* returned.
C36_ChatHistoryAppendOnly ==
  [][/\ \A sid \in Sessions :
          /\ IsPrefix(chat[sid], chat'[sid])
          /\ Len(Appended(sid)) <= 1
          /\ \A i \in 1..Len(Appended(sid)) :
               LET row == Appended(sid)[i] IN
                 \E r \in Requests :
                   /\ req[r].sid = sid
                   /\ row.role = "user" => req[r].pc = "insert" /\ wire[r] = <<>> /\ row.kind = req[r].msg
                   /\ row.role = "assistant" => req[r].pc = "save_assistant" /\ row.kind = req[r].msg
     /\ \A r \in Requests :
          \/ (wire'[r] # <<>> /\ wire[r] = <<>>)
          \/ (req'[r].pc = "generating" /\ req[r].pc # "generating")
          => \E i \in 1..Len(chat'[req'[r].sid]) :
               /\ chat'[req'[r].sid][i].role = "user"
               /\ req[r].pc \in {"insert", "history"} => chat'[req'[r].sid][i].kind = req[r].msg]_vars

C36_Witness ==
  \E r \in Requests :
    LET rows == chat[req[r].sid] IN
      /\ req[r].pc = "await_orch" /\ wire[r] # <<>>
      /\ Len(rows) = 2 /\ rows[1].role = "user" /\ rows[2].role = "assistant"

(***************************************************************************)
(* The cleanup of a request releases the lock at most once.                *)
(***************************************************************************)
\* C37: once a request has closed its stream, none of its later steps
\* changes the lock set; a session leaves the lock set only in a step of
\* the request that holds its lock; so a request that holds the lock keeps
\* it while an earlier request of the session completes.
C37_ReleasesAtMostOnce ==
  [][/\ \A r \in Requests :
          req[r].closed /\ req'[r] # req[r] => activeChat' = activeChat
     /\ \A sid \in Sessions :
          sid \in activeChat /\ sid \notin activeChat'
            => \E q \in Requests : req[q].sid = sid /\ req[q].holds /\ ~req'[q].holds
     /\ \A q \in Requests :
          req[q].holds /\ req'[q].holds => req[q].sid \in activeChat']_vars

\* A request completed after the next request of its session took the lock,
\* and that request still holds it.
C37_Witness ==
  \E r, q \in Requests :
    /\ req[r].pc = "done" /\ req[r].outcome = "streamed" /\ req[r].overtaken
    /\ req[q].sid = req[r].sid /\ req[q].holds /\ Streaming(q)
    /\ req[q].sid \in activeChat

C39_StatusMatchesLog ==
  \A r \in Requests :
    LET rr == run[r] IN
      rr.pc = "returned" =>
        /\ rr.events # <<>>
        /\ rr.status = "ready" <=> Last(rr.events).event = "stage.ready"
        /\ rr.status = "needs_more" <=> IsNeedsMore(Last(rr.events))
        /\ rr.onEvent # "none" => rr.delivered = flush(rr)

C39_Witness ==
  \E r \in Requests :
    /\ run[r].pc = "returned" /\ run[r].status = "needs_more"
    /\ run[r].onEvent = "throwing" /\ run[r].caught # <<>>
    /\ Len(run[r].delivered) > 1 /\ IsNeedsMore(Last(run[r].delivered))

(***************************************************************************)
(* The retry loop of the client.                                           *)
(***************************************************************************)
\* What C40 says of one step of streamChat.
StreamStepOk ==
  /\ stream.attempts > 0 /\ stream'.attempts > stream.attempts
       => /\ ~(stream.hasSignal /\ stream.aborted)
          /\ Last(stream.outcomes) # "429"
  /\ stream'.completes > stream.completes
       => /\ Len(stream'.outcomes) = Len(stream.outcomes) + 1
          /\ Last(stream'.outcomes) = "ok"
  /\ (/\ stream.pc = "runStream" /\ stream.attempts = stream.maxRetries + 1
      /\ stream'.pc # stream.pc)
       => stream'.pc \in {"returned", "threw"}

\* C40: streamChat calls runStream at most maxRetries + 1 times and ends
\* when the last of them ended; it starts no further attempt after an attempt
\* answered 429 or once the caller's signal is aborted; onComplete is called
\* at most once, only in the step in which an attempt ended without error,
\* and never in a call in which onError is called.
C40_BoundedRetries ==
  /\ [](/\ stream.attempts <= stream.maxRetries + 1
        /\ stream.completes <= 1
        /\ ~(stream.completes > 0 /\ stream.errors > 0))
  /\ [][StreamStepOk]_vars
====
